---- MODULE Spec2Model ----
(***************************************************************************)
(* Ingestion pipeline and chunk store of Metabrain (src-tauri/src).        *)
(*                                                                         *)
(* The store is the SQLite schema of db.rs (tables artifacts, embeddings). *)
(* Three tasks run against it: the ingest engine (sync_vault/process_file  *)
(* and remove_file, which need exclusive access to the engine), the        *)
(* sync_outline command and the delete_artifact command.  Every store      *)
(* method locks the connection mutex for its whole body, so a store call   *)
(* is one step; tasks interleave between store calls and at awaits.        *)
(* A store call may fail (DbError), an embedding request may fail, a file  *)
(* read may fail; the files and the wiki are free to change at any time,   *)
(* so the content a task reads is chosen when it reads it.                 *)
(*                                                                         *)
(* A document's raw content is a content number c; its fingerprint is      *)
(* compute_hash(c), its plain text has WordCount(c) words, and its chunks  *)
(* are the word ranges chunk_text produces.  A chunk text is the pair      *)
(* <<c, i>>.  Vectors and the timestamps last_modified / indexed_at are    *)
(* not represented: no operation modelled here reads them.                 *)
(***************************************************************************)
EXTENDS Integers, Sequences, FiniteSets, TLC

(* ---- bounds ---- *)
NumPaths == 2
MaxContent == 2
MaxId == 2
MaxFaults == 1
MaxCommands == 3
MaxWords == 1500
Precision == 4
ExpRange == 4
MaxDim == 2
MaxChunks == 3
MaxConfigs == 2
MaxRequests == 2
MaxMessages == 2
MaxTime == 1
MaxStream == 2

(* ---- program constants ---- *)
CHUNK_SIZE == 500
CHUNK_OVERLAP == 50
MAX_CONTEXT_CHUNKS == 5

Paths == 1..NumPaths
OutlinePath == 0
Contents == 1..MaxContent
NoFile == 0
NoId == 0

VARIABLES foreign_keys, artifacts, embeddings, next_id, engine, v, o, d,
          faults, commands, locks, config, tasks, ck, call,
          chat_messages, now, sm, calls

vars == <<foreign_keys, artifacts, embeddings, next_id, engine, v, o, d,
          faults, commands, locks, config, tasks, ck, call,
          chat_messages, now, sm, calls>>

\* The chat_messages table, the clock and the send_message command.
chatvars == <<chat_messages, now, sm>>

\* The store, the ingestion tasks and their budgets.
storevars == <<foreign_keys, artifacts, embeddings, next_id, v, o, d, faults, commands>>

\* The two engine locks of AppState, the configuration and the commands
\* that take the locks; calls are two invocations of the sync_vault command.
lockvars == <<locks, config, tasks, calls>>

\* One run of chunk_text and one call of a pure function.
fnvars == <<ck, call>>

\* A command or an engine operation is invoked; commands counts them.
Invoked == commands < MaxCommands /\ commands' = commands + 1

\* A call into the environment (a store call, an embedding request, a file
\* read, a wiki fetch) answers ok or fails; faults counts the failures so far.
MayAnswer(ok) == ok \/ faults < MaxFaults

Answered(ok) == faults' = IF ok THEN faults ELSE faults + 1

(* ======================= parser.rs ======================= *)

\* Number of whitespace-delimited words of the plain text of content c.
WordCount(c) == 450 * c

Min(a, b) == IF a < b THEN a ELSE b

\* A window one word longer than CHUNK_SIZE.
window_end_inclusive(w, start) == Min(start + CHUNK_SIZE + 1, w)

\* chunk_text, line 190: the end of the window that starts at start.
window_end(w, start) == Min(start + CHUNK_SIZE, w)

\* The next window starts where the last one ended: no overlap.
advance_no_overlap(w, end) == end

\* The overlap added to the end of the window instead of subtracted.
advance_skip(w, end) == IF end < w THEN end + CHUNK_OVERLAP ELSE end

\* chunk_text, lines 195-199: the start of the next window.
advance(w, end) == IF end < w THEN end - CHUNK_OVERLAP ELSE end

\* chunk_text without its early return.
fits_never(w) == FALSE

\* chunk_text, line 182: the text fits one chunk.
fits_one_chunk(w) == w <= CHUNK_SIZE

RECURSIVE chunk_loop(_, _)
chunk_loop(w, start) ==
    IF start < w
    THEN LET end == window_end(w, start)
         IN  <<(<<start, end>>)>> \o chunk_loop(w, advance(w, end))
    ELSE << >>

\* chunk_text over a text of w words: the sequence of word ranges [start, end).
chunk_text(w) ==
    IF fits_one_chunk(w) THEN <<(<<0, w>>)>> ELSE chunk_loop(w, 0)

\* chunk_text as the program runs it, one iteration of its while loop per
\* step.  ck holds the locals: the word count, start, and the chunks pushed.
CkIdle == [pc |-> "idle", w |-> 0, start |-> 0, chunks |-> << >>]

\* chunk_text, lines 179-187: split into words, return the whole text as one
\* chunk when it fits, else set up the loop.
chunk_text_call ==
    /\ ck.pc = "idle"
    /\ call.op = "none"
    /\ \E w \in 0..MaxWords :
         ck' = IF fits_one_chunk(w)
               THEN [pc |-> "done", w |-> w, start |-> 0, chunks |-> <<(<<0, w>>)>>]
               ELSE [pc |-> "loop", w |-> w, start |-> 0, chunks |-> << >>]
    /\ UNCHANGED <<chatvars, storevars, engine, lockvars, call>>

\* chunk_text, lines 189-200: one iteration of the while loop.
chunk_text_step ==
    /\ ck.pc = "loop"
    /\ ck.start < ck.w
    /\ LET end == window_end(ck.w, ck.start)
       IN  ck' = [ck EXCEPT !.chunks = Append(@, <<ck.start, end>>),
                            !.start = advance(ck.w, end)]
    /\ UNCHANGED <<chatvars, storevars, engine, lockvars, call>>

\* chunk_text, lines 189 and 202: the loop condition fails, chunks is returned.
chunk_text_exit ==
    /\ ck.pc = "loop"
    /\ ~ (ck.start < ck.w)
    /\ ck' = [ck EXCEPT !.pc = "done"]
    /\ UNCHANGED <<chatvars, storevars, engine, lockvars, call>>

\* The caller has taken the chunks.
chunk_text_return ==
    /\ ck.pc = "done"
    /\ ck' = CkIdle
    /\ UNCHANGED <<chatvars, storevars, engine, lockvars, call>>

compute_hash(c) == <<"sha256", c>>

\* parse_content: fingerprint and chunk count of raw content c.
parse_content(c) ==
    [content_hash |-> compute_hash(c), nchunks |-> Len(chunk_text(WordCount(c))), c |-> c]

(* ======================= db.rs ======================= *)

NoArtifact == [id |-> NoId, path |-> OutlinePath, content_hash |-> <<"none", 0>>]

\* SELECT ... FROM artifacts WHERE path = ?1 over the table arts.
RecordIn(arts, path) ==
    IF \E a \in arts : a.path = path
    THEN CHOOSE a \in arts : a.path = path
    ELSE NoArtifact

get_artifact_by_path(path) == RecordIn(artifacts, path)

\* The chunk_index values the table embs holds for artifact aid.
ChunkIdx(embs, aid) == {e.chunk_index : e \in {x \in embs : x.artifact_id = aid}}

\* upsert_artifact on a table without the UNIQUE constraint on path.
upsert_violates_no_unique(a) == FALSE

\* INSERT ... ON CONFLICT(id) DO UPDATE: the upsert clause covers the primary
\* key only; a row with another id and the same path violates UNIQUE(path).
upsert_violates(a) ==
    \E r \in artifacts : r.id # a.id /\ r.path = a.path

upsert_artifact(a) ==
    {r \in artifacts : r.id # a.id} \cup {a}

\* DELETE FROM artifacts WHERE id = ?1; chunks go only through the
\* ON DELETE CASCADE of the schema, which SQLite enforces only when
\* foreign keys are enabled for the connection.
delete_artifact_rows(id) == {r \in artifacts : r.id # id}

delete_artifact_chunks(id) ==
    IF foreign_keys THEN {e \in embeddings : e.artifact_id # id} ELSE embeddings

delete_embeddings_by_artifact(id) == {e \in embeddings : e.artifact_id # id}

\* delete_artifact_by_path without its first statement.
delete_by_path_chunks_kept(path) == embeddings

\* delete_artifact_by_path, first statement.
delete_by_path_chunks(path) ==
    {e \in embeddings : ~ \E a \in artifacts : a.path = path /\ a.id = e.artifact_id}

\* delete_artifact_by_path, second statement.
delete_by_path_rows(path) == {r \in artifacts : r.path # path}

\* The cascade of the second statement over the chunks embs the first left.
delete_by_path_cascade(embs, path) ==
    IF foreign_keys
    THEN {e \in embs : ~ \E a \in artifacts : a.path = path /\ a.id = e.artifact_id}
    ELSE embs

Embedding(aid, i, c) ==
    [id |-> <<aid, i>>, artifact_id |-> aid, chunk_index |-> i, content |-> <<c, i>>]

insert_violates(e) ==
    \/ \E x \in embeddings : x.id = e.id
    \/ foreign_keys /\ ~ \E a \in artifacts : a.id = e.artifact_id

insert_embedding(e) == embeddings \cup {e}

\* The bit pattern of an f32: the sign bit and the remaining 31 bits
\* (exponent and fraction) as a number.
F32Bits(sign, rest) == [sign |-> sign, rest |-> rest]

\* f32::to_le_bytes: the 4 bytes of the bit pattern, least significant first.
to_le_bytes(x) ==
    << x.rest % 256,
       (x.rest \div 256) % 256,
       (x.rest \div 65536) % 256,
       (x.rest \div 16777216) + 128 * x.sign >>

from_be_bytes(b) ==
    [sign |-> b[1] \div 128,
     rest |-> (b[1] % 128) * 16777216 + b[2] * 65536 + b[3] * 256 + b[4]]

\* f32::from_le_bytes: the bit pattern whose least significant byte is b[1].
from_le_bytes(b) ==
    [sign |-> b[4] \div 128,
     rest |-> (b[4] % 128) * 16777216 + b[3] * 65536 + b[2] * 256 + b[1]]

\* embedding_to_bytes, lines 361-366: the components' bytes, concatenated.
RECURSIVE embedding_to_bytes(_)
embedding_to_bytes(embedding) ==
    IF embedding = << >> THEN << >>
    ELSE to_le_bytes(Head(embedding)) \o embedding_to_bytes(Tail(embedding))

\* bytes_to_embedding, lines 368-376: one component per whole group of 4
\* bytes; chunks_exact drops a shorter remainder.
bytes_to_embedding(bytes) ==
    [i \in 1..(Len(bytes) \div 4) |-> from_le_bytes(SubSeq(bytes, 4 * i - 3, 4 * i))]

(* ======================= ingest.rs ======================= *)

SyncStatusDefault ==
    [is_running |-> FALSE, total_files |-> 0, processed_files |-> 0,
     last_sync_at |-> "None", error |-> "None"]

PathSeq == [i \in 1..NumPaths |-> i]

\* scan_directory (watcher.rs): the markdown files of the vault whose paths
\* are in present, in directory order.
scan_directory(present) == SelectSeq(PathSeq, LAMBDA p : p \in present)

\* app_handle.emit_all: the notification is handed to the front end, after
\* those emitted before it.
emit_all(events, event, payload) ==
    Append(events, [event |-> event, payload |-> payload])

\* The name of a scanned file (lines 77-79); the empty string is << >>.
file_name(file_path) == <<"name", file_path>>

\* The engine task at rest: no command holds the ingest_engine lock.
\* embedded, inserted, removed, log and scan record what the task did: the
\* chunks whose embedding process_file requested and those it inserted, the
\* chunks remove_file found, the files sync_vault has handed to process_file
\* with their results, and the list scan_directory returned.  events are the
\* notifications sync_vault has emitted.
VIdle ==
    [pc |-> "idle", files |-> << >>, path |-> OutlinePath, c |-> NoFile,
     existing |-> NoId, aid |-> NoId, idx |-> 0, result |-> "none",
     embedded |-> {}, inserted |-> {}, removed |-> {}, log |-> << >>,
     scan |-> << >>, events |-> << >>]

invalid_vault_path_reset(status) ==
    [SyncStatusDefault EXCEPT !.error = "Invalid vault path"]

\* sync_vault, lines 55-58: the path is no directory; the error is written
\* to the status, which is returned.
invalid_vault_path(status) == [status EXCEPT !.error = "Invalid vault path"]

\* Whether process_file returned Ok(()).
IsOk(res) == res \in {"ok", "skip"}

\* sync_vault's loop body when a failed file ends the batch.
files_after_abort(files, res) == IF IsOk(res) THEN files ELSE << >>

\* sync_vault's loop body after process_file returned (lines 88-93): an
\* error is logged and the remaining files are kept.
files_after(files, res) == files

\* process_file returns res to sync_vault, which counts the file (line 93).
\* The locals of process_file are dropped; idx is kept as the place of a
\* failed embedding request.
PfReturn(vv, res) ==
    /\ v' = [VIdle EXCEPT !.pc = "loop", !.result = res,
                          !.idx = IF res = "embed" THEN vv.idx ELSE 0,
                          !.files = files_after(vv.files, res),
                          !.log = Append(vv.log, <<vv.path, IsOk(res)>>),
                          !.scan = vv.scan, !.events = vv.events]
    /\ engine' = [engine EXCEPT !.status.processed_files = @ + 1]

\* sync_vault, lines 48-73 (with the command's lock and engine creation,
\* main.rs 140-153).
sync_vault(valid, present) ==
    /\ Invoked
    /\ v.pc = "idle"
    /\ IF ~valid
       THEN /\ engine' = [some |-> TRUE,
                          status |-> invalid_vault_path(engine.status)]
            /\ v' = [VIdle EXCEPT !.pc = "returned", !.result = "invalid"]
       ELSE /\ engine' = [some |-> TRUE,
                          status |-> [engine.status EXCEPT
                                        !.is_running = TRUE, !.error = "None",
                                        !.processed_files = 0,
                                        !.total_files = Len(scan_directory(present))]]
            /\ v' = [VIdle EXCEPT !.pc = "loop", !.files = scan_directory(present),
                                  !.scan = scan_directory(present),
                                  !.events = emit_all(<< >>, "sync-progress",
                                      [processed |-> 0,
                                       total |-> Len(scan_directory(present)),
                                       currentFile |-> << >>])]
    /\ UNCHANGED <<foreign_keys, artifacts, embeddings, next_id, o, d, faults, lockvars, fnvars, chatvars>>

\* sync_vault, lines 96-107: the loop is over.
sync_vault_finish ==
    /\ v.pc = "loop"
    /\ v.files = << >>
    /\ engine' = [engine EXCEPT !.status.is_running = FALSE,
                                !.status.last_sync_at = "Some"]
    /\ v' = [VIdle EXCEPT !.pc = "returned", !.result = "ok", !.log = v.log,
                          !.scan = v.scan,
                          !.events = emit_all(v.events, "sync-complete",
                                              engine'.status)]
    /\ UNCHANGED <<foreign_keys, artifacts, embeddings, next_id, o, d, faults, commands, lockvars, fnvars, chatvars>>

\* The command returns its status to the caller and releases the lock.
sync_vault_return ==
    /\ v.pc = "returned"
    /\ v' = VIdle
    /\ UNCHANGED <<foreign_keys, artifacts, embeddings, next_id, engine, o, d, faults, commands, lockvars, fnvars, chatvars>>

\* process_file, lines 110-124: parse the file (content c, NoFile when it
\* cannot be read), look the path up, compare fingerprints.
process_file_lookup(c, db_ok) ==
    /\ v.pc = "loop"
    /\ v.files # << >>
    /\ MayAnswer(c # NoFile /\ db_ok)
    /\ Answered(c # NoFile /\ db_ok)
    /\ LET p == Head(v.files)
           vv == [v EXCEPT !.path = p, !.files = Tail(v.files), !.c = c,
                           !.existing = NoId, !.aid = NoId, !.idx = 0,
                           !.result = "none", !.embedded = {}, !.inserted = {},
                           !.events = emit_all(v.events, "sync-progress",
                               [processed |-> engine.status.processed_files,
                                total |-> engine.status.total_files,
                                currentFile |-> file_name(p)])]
           existing == get_artifact_by_path(p)
       IN  IF c = NoFile
           THEN PfReturn(vv, "io")
           ELSE IF ~db_ok
                THEN PfReturn(vv, "db")
                ELSE IF existing.id # NoId
                     THEN IF existing.content_hash = parse_content(c).content_hash
                          THEN PfReturn(vv, "skip")
                          ELSE /\ v' = [vv EXCEPT !.pc = "pf_delete",
                                                  !.existing = existing.id]
                               /\ UNCHANGED engine
                     ELSE /\ v' = [vv EXCEPT !.pc = "pf_upsert"]
                          /\ UNCHANGED engine
    /\ UNCHANGED <<foreign_keys, artifacts, embeddings, next_id, o, d, commands, lockvars, fnvars, chatvars>>

process_file ==
    \E c \in Contents \cup {NoFile}, db_ok \in BOOLEAN : process_file_lookup(c, db_ok)

\* process_file, line 123: the file changed, delete its old embeddings.
process_file_delete ==
    /\ v.pc = "pf_delete"
    /\ \E db_ok \in BOOLEAN :
         /\ MayAnswer(db_ok)
         /\ Answered(db_ok)
         /\ IF db_ok
            THEN /\ embeddings' = delete_embeddings_by_artifact(v.existing)
                 /\ v' = [v EXCEPT !.pc = "pf_upsert"]
                 /\ UNCHANGED engine
            ELSE /\ PfReturn(v, "db")
                 /\ UNCHANGED embeddings
    /\ UNCHANGED <<foreign_keys, artifacts, next_id, o, d, commands, lockvars, fnvars, chatvars>>

\* process_file, lines 126-149: file metadata, a new UUID, upsert_artifact.
process_file_upsert ==
    /\ v.pc = "pf_upsert"
    /\ next_id <= MaxId
    /\ LET artifact == [id |-> next_id, path |-> v.path,
                        content_hash |-> compute_hash(v.c)]
       IN  \E meta_ok, db_ok \in BOOLEAN :
             /\ MayAnswer(meta_ok /\ db_ok)
             /\ Answered(meta_ok /\ db_ok)
             /\ IF ~meta_ok
                THEN /\ PfReturn(v, "io")
                     /\ UNCHANGED <<artifacts, next_id>>
                ELSE IF ~db_ok
                     THEN /\ PfReturn(v, "db")
                          /\ UNCHANGED <<artifacts, next_id>>
                     ELSE IF upsert_violates(artifact)
                          THEN /\ PfReturn(v, "constraint")
                               /\ UNCHANGED <<artifacts, next_id>>
                          ELSE /\ artifacts' = upsert_artifact(artifact)
                               /\ next_id' = next_id + 1
                               /\ v' = [v EXCEPT !.pc = "pf_embed", !.aid = next_id]
                               /\ UNCHANGED engine
    /\ UNCHANGED <<foreign_keys, embeddings, o, d, commands, lockvars, fnvars, chatvars>>

\* process_file going on to the next chunk after a failed embedding request.
on_embed_skip(ok) == IF ok THEN "insert" ELSE "skip"

\* What process_file does with the result of embed (line 154, the ? operator).
on_embed(ok) == IF ok THEN "insert" ELSE "return"

\* process_file, lines 152-154: request the embedding of chunk idx.
process_file_embed ==
    /\ v.pc = "pf_embed"
    /\ \E ok \in BOOLEAN :
         LET vv == [v EXCEPT !.embedded = @ \cup {v.idx},
                             !.result = IF ok THEN @ ELSE "embed"]
         IN  /\ MayAnswer(ok)
             /\ Answered(ok)
             /\ CASE on_embed(ok) = "insert" ->
                       /\ v' = [vv EXCEPT !.pc = "pf_insert"]
                       /\ UNCHANGED engine
                  [] on_embed(ok) = "return" -> PfReturn(vv, "embed")
                  [] OTHER ->
                       IF v.idx + 1 < parse_content(v.c).nchunks
                       THEN /\ v' = [vv EXCEPT !.idx = @ + 1]
                            /\ UNCHANGED engine
                       ELSE PfReturn(vv, "ok")
    /\ UNCHANGED <<foreign_keys, artifacts, embeddings, next_id, o, d, commands, lockvars, fnvars, chatvars>>

\* process_file, lines 156-166: insert the chunk, go on to the next one.
process_file_insert ==
    /\ v.pc = "pf_insert"
    /\ LET e == Embedding(v.aid, v.idx, v.c)
       IN  \E db_ok \in BOOLEAN :
             /\ MayAnswer(db_ok)
             /\ Answered(db_ok)
             /\ IF ~db_ok
                THEN /\ PfReturn(v, "db")
                     /\ UNCHANGED embeddings
                ELSE IF insert_violates(e)
                     THEN /\ PfReturn(v, "constraint")
                          /\ UNCHANGED embeddings
                     ELSE /\ embeddings' = insert_embedding(e)
                          /\ IF v.idx + 1 < parse_content(v.c).nchunks
                             THEN /\ v' = [v EXCEPT !.pc = "pf_embed", !.idx = @ + 1,
                                                    !.inserted = @ \cup {v.idx}]
                                  /\ UNCHANGED engine
                             ELSE PfReturn([v EXCEPT !.inserted = @ \cup {v.idx}], "ok")
    /\ UNCHANGED <<foreign_keys, artifacts, next_id, o, d, commands, lockvars, fnvars, chatvars>>

\* remove_file, lines 171-175, through delete_artifact_by_path (db.rs
\* 212-222): two statements under one lock of the connection, no transaction.
remove_file_step(p, outcome) ==
    /\ Invoked
    /\ v.pc = "idle"
    /\ engine.some
    /\ MayAnswer(outcome = "ok")
    /\ Answered(outcome = "ok")
    /\ embeddings' = CASE outcome = "err_first" -> embeddings
                        [] outcome = "err_second" -> delete_by_path_chunks(p)
                        [] OTHER -> delete_by_path_cascade(delete_by_path_chunks(p), p)
    /\ artifacts' = IF outcome = "ok" THEN delete_by_path_rows(p) ELSE artifacts
    /\ v' = [VIdle EXCEPT !.pc = "removed", !.path = p,
                          !.existing = get_artifact_by_path(p).id,
                          !.result = IF outcome = "ok" THEN "ok" ELSE "db",
                          !.removed = {e.chunk_index : e \in
                              {x \in embeddings :
                                  x.artifact_id = get_artifact_by_path(p).id}}]
    /\ UNCHANGED <<foreign_keys, next_id, engine, o, d, lockvars, fnvars, chatvars>>

remove_file ==
    \E p \in Paths, outcome \in {"ok", "err_first", "err_second"} :
        remove_file_step(p, outcome)

\* remove_file has returned to its caller.
remove_file_return ==
    /\ v.pc = "removed"
    /\ v' = VIdle
    /\ UNCHANGED <<foreign_keys, artifacts, embeddings, next_id, engine, o, d, faults, commands, lockvars, fnvars, chatvars>>

(* ======================= main.rs ======================= *)

\* The title of a document of the list (doc.title).
title(doc) == <<"title", doc>>

\* The sync_outline task at rest.  events are the notifications the latest
\* run of the command has emitted; failed records that a call made for a
\* document of the running batch returned an error.
OIdle ==
    [pc |-> "idle", docs |-> << >>, path |-> OutlinePath, c |-> NoFile,
     existing |-> NoId, aid |-> NoId, idx |-> 0,
     total |-> 0, processed |-> 0, errors |-> FALSE, events |-> << >>,
     failed |-> FALSE]

\* sync_outline, lines 194-224: settings, clients, the document list.
sync_outline ==
    /\ Invoked
    /\ o.pc = "idle"
    /\ o' = [OIdle EXCEPT !.pc = "loop", !.docs = <<OutlinePath>>, !.total = 1,
                          !.events = emit_all(<< >>, "outline-sync-progress",
                              [processed |-> 0, total |-> 0,
                               currentDocument |-> <<"Fetching document list...">>])]
    /\ UNCHANGED <<foreign_keys, artifacts, embeddings, next_id, engine, v, d, faults, lockvars, fnvars, chatvars>>

\* One iteration of the loop has ended at line 312: the document is counted.
OutlineNext(oo) ==
    [OIdle EXCEPT !.pc = "loop", !.docs = oo.docs, !.total = oo.total,
                  !.processed = oo.processed + 1, !.errors = oo.errors,
                  !.events = oo.events, !.failed = oo.failed]

\* One iteration has ended through the continue of line 272.
OutlineContinue(oo) ==
    [OIdle EXCEPT !.pc = "loop", !.docs = oo.docs, !.total = oo.total,
                  !.processed = oo.processed, !.errors = TRUE,
                  !.events = oo.events, !.failed = TRUE]

\* should_update of lines 243-247, from the result of get_artifact_by_path.
should_update(db_ok, existing, parsed) ==
    IF db_ok /\ existing.id # NoId
    THEN existing.content_hash # parsed.content_hash
    ELSE TRUE

\* sync_outline, lines 226-249: fetch the document (text c), parse it, look
\* its path up.
sync_outline_lookup ==
    /\ o.pc = "loop"
    /\ o.docs # << >>
    /\ \E c \in Contents, fetch_ok, db_ok \in BOOLEAN :
         LET p == Head(o.docs)
             oo == [o EXCEPT !.path = p, !.docs = Tail(o.docs), !.c = c,
                             !.existing = NoId, !.aid = NoId, !.idx = 0,
                             !.events = emit_all(o.events, "outline-sync-progress",
                                 [processed |-> o.processed, total |-> o.total,
                                  currentDocument |-> title(p)])]
         IN  /\ MayAnswer(fetch_ok /\ db_ok)
             /\ Answered(fetch_ok /\ db_ok)
             /\ IF ~fetch_ok
                THEN o' = OutlineNext([oo EXCEPT !.errors = TRUE, !.failed = TRUE])
                ELSE IF should_update(db_ok, get_artifact_by_path(p), parse_content(c))
                     THEN o' = [oo EXCEPT !.pc = "o_lookup2"]
                     ELSE o' = OutlineNext(oo)
    /\ UNCHANGED <<foreign_keys, artifacts, embeddings, next_id, engine, v, d, commands, lockvars, fnvars, chatvars>>

\* sync_outline, line 251: the second lookup of the path.
sync_outline_lookup2 ==
    /\ o.pc = "o_lookup2"
    /\ \E db_ok \in BOOLEAN :
         /\ MayAnswer(db_ok)
         /\ Answered(db_ok)
         /\ IF db_ok /\ get_artifact_by_path(o.path).id # NoId
            THEN o' = [o EXCEPT !.pc = "o_delete",
                                !.existing = get_artifact_by_path(o.path).id]
            ELSE o' = [o EXCEPT !.pc = "o_upsert"]
    /\ UNCHANGED <<foreign_keys, artifacts, embeddings, next_id, engine, v, d, commands, lockvars, fnvars, chatvars>>

\* sync_outline, line 252: delete the old embeddings, the result is dropped.
sync_outline_delete ==
    /\ o.pc = "o_delete"
    /\ \E db_ok \in BOOLEAN :
         /\ MayAnswer(db_ok)
         /\ Answered(db_ok)
         /\ embeddings' = IF db_ok THEN delete_embeddings_by_artifact(o.existing)
                           ELSE embeddings
         /\ o' = [o EXCEPT !.pc = "o_upsert"]
    /\ UNCHANGED <<foreign_keys, artifacts, next_id, engine, v, d, commands, lockvars, fnvars, chatvars>>

\* sync_outline, lines 255-273: a new UUID, upsert_artifact.
sync_outline_upsert ==
    /\ o.pc = "o_upsert"
    /\ next_id <= MaxId
    /\ LET artifact == [id |-> next_id, path |-> o.path,
                        content_hash |-> compute_hash(o.c)]
       IN  \E db_ok \in BOOLEAN :
             /\ MayAnswer(db_ok)
             /\ Answered(db_ok)
             /\ IF db_ok /\ ~ upsert_violates(artifact)
                THEN /\ artifacts' = upsert_artifact(artifact)
                     /\ next_id' = next_id + 1
                     /\ o' = [o EXCEPT !.pc = "o_embed", !.aid = next_id]
                ELSE /\ o' = OutlineContinue(o)
                     /\ UNCHANGED <<artifacts, next_id>>
    /\ UNCHANGED <<foreign_keys, embeddings, engine, v, d, commands, lockvars, fnvars, chatvars>>

\* The chunk loop of lines 276-295 moves to the next chunk or ends.
OutlineChunkDone(oo) ==
    IF oo.idx + 1 < parse_content(oo.c).nchunks
    THEN [oo EXCEPT !.pc = "o_embed", !.idx = @ + 1]
    ELSE OutlineNext(oo)

\* sync_outline, line 277: request the embedding of chunk idx.
sync_outline_embed ==
    /\ o.pc = "o_embed"
    /\ \E ok \in BOOLEAN :
         /\ MayAnswer(ok)
         /\ Answered(ok)
         /\ IF ok
            THEN o' = [o EXCEPT !.pc = "o_insert"]
            ELSE o' = OutlineChunkDone([o EXCEPT !.failed = TRUE])
    /\ UNCHANGED <<foreign_keys, artifacts, embeddings, next_id, engine, v, d, commands, lockvars, fnvars, chatvars>>

\* sync_outline, lines 279-289: insert the chunk; a failure is only logged.
sync_outline_insert ==
    /\ o.pc = "o_insert"
    /\ LET e == Embedding(o.aid, o.idx, o.c)
       IN  \E db_ok \in BOOLEAN :
             /\ MayAnswer(db_ok)
             /\ Answered(db_ok)
             /\ IF db_ok /\ ~ insert_violates(e)
                THEN /\ embeddings' = insert_embedding(e)
                     /\ o' = OutlineChunkDone(o)
                ELSE /\ UNCHANGED embeddings
                     /\ o' = OutlineChunkDone([o EXCEPT !.failed = TRUE])
    /\ UNCHANGED <<foreign_keys, artifacts, next_id, engine, v, d, commands, lockvars, fnvars, chatvars>>

\* sync_outline, lines 315-331: the final status is built, emitted, returned.
sync_outline_finish ==
    /\ o.pc = "loop"
    /\ o.docs = << >>
    /\ o' = [OIdle EXCEPT !.events = emit_all(o.events, "outline-sync-complete",
                              [is_running |-> FALSE, total_files |-> o.total,
                               processed_files |-> o.processed,
                               last_sync_at |-> "Some",
                               error |-> IF o.errors THEN "Some" ELSE "None"])]
    /\ UNCHANGED <<foreign_keys, artifacts, embeddings, next_id, engine, v, d, faults, commands, lockvars, fnvars, chatvars>>

DIdle == [pc |-> "idle", id |-> NoId]

\* The delete_artifact command, line 181: delete the embeddings first.
delete_artifact_embeddings ==
    /\ Invoked
    /\ d.pc = "idle"
    /\ \E id \in 1..(next_id - 1), db_ok \in BOOLEAN :
         /\ MayAnswer(db_ok)
         /\ Answered(db_ok)
         /\ IF db_ok
            THEN /\ embeddings' = delete_embeddings_by_artifact(id)
                 /\ d' = [pc |-> "delete", id |-> id]
            ELSE /\ UNCHANGED embeddings
                 /\ d' = DIdle
    /\ UNCHANGED <<foreign_keys, artifacts, next_id, engine, v, o, lockvars, fnvars, chatvars>>

\* Database::delete_artifact (db.rs 206-210), called at line 183 of the
\* delete_artifact command, which then returns.
delete_artifact_step(db_ok) ==
    /\ d.pc = "delete"
    /\ MayAnswer(db_ok)
    /\ Answered(db_ok)
    /\ artifacts' = IF db_ok THEN delete_artifact_rows(d.id) ELSE artifacts
    /\ embeddings' = IF db_ok THEN delete_artifact_chunks(d.id) ELSE embeddings
    /\ d' = DIdle
    /\ UNCHANGED <<foreign_keys, next_id, engine, v, o, commands, lockvars, fnvars, chatvars>>

delete_artifact == \E db_ok \in BOOLEAN : delete_artifact_step(db_ok)

(* ======================= commands and locks ======================= *)

\* The commands of main.rs seen as tasks that take the two mutexes of
\* AppState and make requests to the embedding and language-model services.
\* A configuration (endpoint and models) is the number of the save_settings
\* call that stored it; 1 is the configuration the application starts with.
\* save_settings calls are issued one at a time.

\* AppState, lines 27-31: who holds each tokio Mutex.
LocksFree == [ingest_engine |-> "free", rag_engine |-> "free"]

drop_guard_leaked(held, mutex) == held

\* A MutexGuard goes out of scope when its command returns: the mutex is
\* free again.
drop_guard(held, mutex) == [held EXCEPT ![mutex] = "free"]

\* The configuration in the settings table, in the RagEngine, in the
\* IngestEngine (0 while AppState.ingest_engine is None), and the latest one
\* whose save_settings has returned.
ConfigInit == [settings |-> 1, rag_engine |-> 1, ingest_engine |-> 0, returned |-> 1]

\* A task that makes requests: left is how many it still makes, used the
\* configurations of the requests made, base the latest configuration whose
\* save_settings had returned when the command was invoked, stored the one
\* in the settings table when it made its first request, cfg the clients it
\* built itself.
TaskIdle == [pc |-> "idle", left |-> 0, used |-> {}, base |-> 0, stored |-> 0, cfg |-> 0]

TasksIdle ==
    [sync_vault |-> TaskIdle, send_message |-> TaskIdle, sync_outline |-> TaskIdle,
     save_settings |-> [pc |-> "idle", new |-> 0],
     get_sync_status |-> [pc |-> "idle", during |-> FALSE, snapshot |-> SyncStatusDefault]]

\* One request of task t made with configuration c.
Request(t, c) ==
    [t EXCEPT !.left = @ - 1, !.used = @ \cup {c},
              !.stored = IF t.used = {} THEN config.settings ELSE @]

\* sync_vault, line 140: the command is invoked and awaits the lock.
command_sync_vault ==
    /\ tasks.sync_vault.pc = "idle"
    /\ tasks' = [tasks EXCEPT !.sync_vault = [TaskIdle EXCEPT !.pc = "lock",
                                                             !.base = config.returned]]
    /\ UNCHANGED <<chatvars, storevars, fnvars, calls, engine, locks, config>>

\* sync_vault, lines 140-153 and ingest.rs 48-73: the lock is acquired, the
\* engine is created from the stored settings when there is none, and the
\* batch starts; n is the number of files found.
command_sync_vault_begin ==
    /\ tasks.sync_vault.pc = "lock"
    /\ locks.ingest_engine = "free"
    /\ \E db_ok, valid \in BOOLEAN, n \in 0..MaxRequests :
         IF config.ingest_engine = 0 /\ ~db_ok
         THEN /\ tasks' = [tasks EXCEPT !.sync_vault = TaskIdle]
              /\ UNCHANGED <<engine, locks, config>>
         ELSE /\ config' = [config EXCEPT !.ingest_engine =
                                             IF @ = 0 THEN config.settings ELSE @]
              /\ IF ~valid
                 THEN /\ engine' = [some |-> TRUE,
                                    status |-> invalid_vault_path(engine.status)]
                      /\ tasks' = [tasks EXCEPT !.sync_vault = TaskIdle]
                      /\ UNCHANGED locks
                 ELSE /\ engine' = [some |-> TRUE,
                                    status |-> [engine.status EXCEPT
                                                  !.is_running = TRUE, !.error = "None",
                                                  !.processed_files = 0,
                                                  !.total_files = n]]
                      /\ tasks' = [tasks EXCEPT !.sync_vault.pc = "run",
                                                !.sync_vault.left = n]
                      /\ locks' = [locks EXCEPT !.ingest_engine = "sync_vault"]
    /\ UNCHANGED <<chatvars, storevars, fnvars, calls>>

\* ingest.rs 76-93: one file of the batch; embeds is whether the file is
\* embedded, with the engine's embedding client, or skipped as unchanged.
command_sync_vault_file ==
    /\ tasks.sync_vault.pc = "run"
    /\ tasks.sync_vault.left > 0
    /\ \E embeds \in BOOLEAN :
         tasks' = [tasks EXCEPT !.sync_vault =
                      IF embeds THEN Request(@, config.ingest_engine)
                      ELSE [@ EXCEPT !.left = @ - 1]]
    /\ engine' = [engine EXCEPT !.status.processed_files = @ + 1]
    /\ UNCHANGED <<chatvars, storevars, fnvars, calls, locks, config>>

\* ingest.rs 96-107 and main.rs 156-159: the batch ends and the command
\* returns, which drops the guard.
command_sync_vault_end ==
    /\ tasks.sync_vault.pc = "run"
    /\ tasks.sync_vault.left = 0
    /\ engine' = [engine EXCEPT !.status.is_running = FALSE,
                                !.status.last_sync_at = "Some"]
    /\ locks' = drop_guard(locks, "ingest_engine")
    /\ tasks' = [tasks EXCEPT !.sync_vault = TaskIdle]
    /\ UNCHANGED <<chatvars, storevars, fnvars, calls, config>>

\* get_sync_status, line 164: the command is invoked and awaits the lock.
command_get_sync_status ==
    /\ tasks.get_sync_status.pc = "idle"
    /\ tasks' = [tasks EXCEPT !.get_sync_status =
                    [pc |-> "lock", during |-> tasks.sync_vault.pc = "run",
                     snapshot |-> SyncStatusDefault]]
    /\ UNCHANGED <<chatvars, storevars, fnvars, calls, engine, locks, config>>

\* get_sync_status, lines 164-170: with the lock, the status is copied.
command_get_sync_status_read ==
    /\ tasks.get_sync_status.pc = "lock"
    /\ locks.ingest_engine = "free"
    /\ tasks' = [tasks EXCEPT !.get_sync_status.pc = "returned",
                              !.get_sync_status.snapshot =
                                  IF engine.some THEN engine.status ELSE SyncStatusDefault]
    /\ UNCHANGED <<chatvars, storevars, fnvars, calls, engine, locks, config>>

\* The caller has the snapshot.
command_get_sync_status_return ==
    /\ tasks.get_sync_status.pc = "returned"
    /\ tasks' = [tasks EXCEPT !.get_sync_status = TasksIdle.get_sync_status]
    /\ UNCHANGED <<chatvars, storevars, fnvars, calls, engine, locks, config>>

\* send_message, lines 110-116: the history is read, the user's message is
\* stored (either can fail, db_ok) and the command awaits the lock.
command_send_message ==
    /\ tasks.send_message.pc = "idle"
    /\ \E db_ok \in BOOLEAN :
         tasks' = IF db_ok
                  THEN [tasks EXCEPT !.send_message = [TaskIdle EXCEPT !.pc = "lock",
                                                          !.base = config.returned]]
                  ELSE tasks
    /\ UNCHANGED <<chatvars, storevars, fnvars, calls, engine, locks, config>>

\* send_message, lines 116-118: the lock is acquired and the query starts;
\* n is the number of requests it makes (rag.rs 83-150).
command_send_message_begin ==
    /\ tasks.send_message.pc = "lock"
    /\ locks.rag_engine = "free"
    /\ locks' = [locks EXCEPT !.rag_engine = "send_message"]
    /\ \E n \in 1..MaxRequests :
         tasks' = [tasks EXCEPT !.send_message.pc = "run", !.send_message.left = n]
    /\ UNCHANGED <<chatvars, storevars, fnvars, calls, engine, config>>

\* rag.rs 83-150: one request of the query, made with the engine's clients;
\* when it fails (ok false) the query makes no more.
command_send_message_request ==
    /\ tasks.send_message.pc = "run"
    /\ tasks.send_message.left > 0
    /\ \E ok \in BOOLEAN :
         tasks' = [tasks EXCEPT !.send_message =
                      IF ok THEN Request(@, config.rag_engine)
                      ELSE [Request(@, config.rag_engine) EXCEPT !.left = 0]]
    /\ UNCHANGED <<chatvars, storevars, fnvars, calls, engine, locks, config>>

\* send_message, lines 118-129: the answer or the error is stored and the
\* command returns, which drops the guard.
command_send_message_end ==
    /\ tasks.send_message.pc = "run"
    /\ tasks.send_message.left = 0
    /\ locks' = drop_guard(locks, "rag_engine")
    /\ tasks' = [tasks EXCEPT !.send_message = TaskIdle]
    /\ UNCHANGED <<chatvars, storevars, fnvars, calls, engine, config>>

\* save_settings, lines 66-69: the settings are stored (db_ok) and the
\* command awaits the RagEngine's lock.
command_save_settings ==
    /\ tasks.save_settings.pc = "idle"
    /\ config.settings < MaxConfigs
    /\ \E db_ok \in BOOLEAN :
         IF db_ok
         THEN /\ config' = [config EXCEPT !.settings = @ + 1]
              /\ tasks' = [tasks EXCEPT !.save_settings =
                              [pc |-> "rag_lock", new |-> config.settings + 1]]
         ELSE UNCHANGED <<config, tasks>>
    /\ UNCHANGED <<chatvars, storevars, fnvars, calls, engine, locks>>

\* save_settings, lines 69-78: with the RagEngine's lock, update_settings
\* (rag.rs 70-80) replaces its clients; the command then awaits the
\* IngestEngine's lock, still holding the first.
command_save_settings_rag ==
    /\ tasks.save_settings.pc = "rag_lock"
    /\ locks.rag_engine = "free"
    /\ locks' = [locks EXCEPT !.rag_engine = "save_settings"]
    /\ config' = [config EXCEPT !.rag_engine = tasks.save_settings.new]
    /\ tasks' = [tasks EXCEPT !.save_settings.pc = "ingest_lock"]
    /\ UNCHANGED <<chatvars, storevars, fnvars, calls, engine>>

\* save_settings, lines 78-88: with the IngestEngine's lock, an existing
\* engine is replaced by a new one (whose status is the default); the
\* command returns, which drops both guards.
command_save_settings_ingest ==
    /\ tasks.save_settings.pc = "ingest_lock"
    /\ locks.ingest_engine = "free"
    /\ IF config.ingest_engine # 0
       THEN /\ config' = [config EXCEPT !.ingest_engine = tasks.save_settings.new,
                                        !.returned = tasks.save_settings.new]
            /\ engine' = [some |-> TRUE, status |-> SyncStatusDefault]
       ELSE /\ config' = [config EXCEPT !.returned = tasks.save_settings.new]
            /\ UNCHANGED engine
    /\ locks' = drop_guard(locks, "rag_engine")
    /\ tasks' = [tasks EXCEPT !.save_settings = TasksIdle.save_settings]
    /\ UNCHANGED <<chatvars, storevars, fnvars, calls>>

client_config_live(built, stored) == stored

\* sync_outline, lines 197-206: the clients are built once, before the
\* loop, from the settings read at line 194; built is their configuration
\* and stored the one in the settings table at the time of a request.
client_config(built, stored) == built

\* sync_outline, lines 194-206: the settings are read (db_ok) and the
\* clients built; n is the number of documents embedded.
command_sync_outline ==
    /\ tasks.sync_outline.pc = "idle"
    /\ \E db_ok \in BOOLEAN, n \in 0..MaxRequests :
         tasks' = IF db_ok
                  THEN [tasks EXCEPT !.sync_outline =
                          [TaskIdle EXCEPT !.pc = "run", !.left = n,
                                           !.base = config.returned,
                                           !.cfg = config.settings]]
                  ELSE tasks
    /\ UNCHANGED <<chatvars, storevars, fnvars, calls, engine, locks, config>>

\* sync_outline, lines 226-300: one embedding request.
command_sync_outline_request ==
    /\ tasks.sync_outline.pc = "run"
    /\ tasks.sync_outline.left > 0
    /\ tasks' = [tasks EXCEPT !.sync_outline =
                    Request(@, client_config(tasks.sync_outline.cfg, config.settings))]
    /\ UNCHANGED <<chatvars, storevars, fnvars, calls, engine, locks, config>>

\* sync_outline, lines 302-332: the command returns.
command_sync_outline_end ==
    /\ tasks.sync_outline.pc = "run"
    /\ tasks.sync_outline.left = 0
    /\ tasks' = [tasks EXCEPT !.sync_outline = TaskIdle]
    /\ UNCHANGED <<chatvars, storevars, fnvars, calls, engine, locks, config>>

\* Two invocations of the sync_vault command that the front end can have
\* in flight at once.
Invocations == {"sync_vault_a", "sync_vault_b"}

\* An invocation at rest; total and left are the files of its batch and
\* those still to process, result what the command returned.
CallIdle == [pc |-> "idle", total |-> 0, left |-> 0, result |-> "none"]

lock_always(held, mutex) == TRUE

\* state.ingest_engine.lock().await, main.rs 140: the await completes when
\* no guard of the mutex is alive.
lock(held, mutex) == held[mutex] = "free"

\* sync_vault, main.rs 140: the command is invoked and awaits the lock.
sync_vault_invoke(i) ==
    /\ calls[i].pc = "idle"
    /\ calls' = [calls EXCEPT ![i] = [CallIdle EXCEPT !.pc = "lock"]]
    /\ UNCHANGED <<chatvars, storevars, fnvars, engine, locks, config, tasks>>

\* sync_vault, main.rs 140-153 and ingest.rs 48-73: the lock is acquired;
\* the engine is created when there is none, which fails when the settings
\* cannot be read (db_ok); an invalid path ends the call; otherwise the
\* batch starts with the n files found.
sync_vault_locked(i) ==
    /\ calls[i].pc = "lock"
    /\ lock(locks, "ingest_engine")
    /\ \E db_ok, valid \in BOOLEAN, n \in 0..MaxRequests :
         IF ~ engine.some /\ ~ db_ok
         THEN /\ calls' = [calls EXCEPT ![i] = [CallIdle EXCEPT !.pc = "returned",
                                                                !.result = "err"]]
              /\ UNCHANGED <<engine, locks>>
         ELSE IF ~ valid
         THEN /\ engine' = [some |-> TRUE,
                            status |-> invalid_vault_path(engine.status)]
              /\ calls' = [calls EXCEPT ![i] = [CallIdle EXCEPT !.pc = "returned",
                                                                !.result = "invalid"]]
              /\ UNCHANGED locks
         ELSE /\ engine' = [some |-> TRUE,
                            status |-> [engine.status EXCEPT
                                          !.is_running = TRUE, !.error = "None",
                                          !.processed_files = 0,
                                          !.total_files = n]]
              /\ calls' = [calls EXCEPT ![i] = [CallIdle EXCEPT !.pc = "run",
                                                                !.total = n, !.left = n]]
              /\ locks' = [locks EXCEPT !.ingest_engine = i]
    /\ UNCHANGED <<chatvars, storevars, fnvars, config, tasks>>

\* ingest.rs 76-93: one file of the batch.
sync_vault_file(i) ==
    /\ calls[i].pc = "run"
    /\ calls[i].left > 0
    /\ calls' = [calls EXCEPT ![i].left = @ - 1]
    /\ engine' = [engine EXCEPT !.status.processed_files = @ + 1]
    /\ UNCHANGED <<chatvars, storevars, fnvars, locks, config, tasks>>

\* ingest.rs 96-107 and main.rs 156-160: the batch ends and the command
\* returns the status, which drops the guard.
sync_vault_end(i) ==
    /\ calls[i].pc = "run"
    /\ calls[i].left = 0
    /\ engine' = [engine EXCEPT !.status.is_running = FALSE,
                                !.status.last_sync_at = "Some"]
    /\ locks' = drop_guard(locks, "ingest_engine")
    /\ calls' = [calls EXCEPT ![i] = [CallIdle EXCEPT !.pc = "returned",
                                                      !.total = calls[i].total,
                                                      !.result = "ok"]]
    /\ UNCHANGED <<chatvars, storevars, fnvars, config, tasks>>

\* The caller has the result.
sync_vault_returned(i) ==
    /\ calls[i].pc = "returned"
    /\ calls' = [calls EXCEPT ![i] = CallIdle]
    /\ UNCHANGED <<chatvars, storevars, fnvars, engine, locks, config, tasks>>

(* ======================= f32 arithmetic ======================= *)

\* An f32 is modelled as a binary floating-point number with the IEEE-754
\* rules of f32 (round to nearest, ties to even; gradual underflow; overflow
\* to infinity; NaN) but with a significand of Precision bits and exponents
\* in -ExpRange..ExpRange, where f32 has 24 bits and -149..104.  A finite
\* value is s * n * 2^e with sign s, 0 <= n < 2^Precision; it is kept
\* normalized (n >= 2^(Precision-1) unless e = -ExpRange).  The sign of zero
\* is not represented.
EMin == 0 - ExpRange

EMax == ExpRange

Pow2(k) == 2^k

Abs(x) == IF x < 0 THEN 0 - x ELSE x

Max(x, y) == IF x > y THEN x ELSE y

Sign(x) == IF x < 0 THEN 0 - 1 ELSE 1

\* The number of bits of the natural number n.
BitLen(n) == CHOOSE b \in 0..30 : n < Pow2(b) /\ (b = 0 \/ n >= Pow2(b - 1))

Zero == [t |-> "fin", s |-> 1, n |-> 0, e |-> EMin]

Inf(sg) == [t |-> "inf", s |-> sg, n |-> 0, e |-> 0]

NaN == [t |-> "nan", s |-> 1, n |-> 0, e |-> 0]

IsZero(x) == x.t = "fin" /\ x.n = 0

\* The f32 nearest to sg * N * 2^E (N a natural number), ties to even.
Round(sg, N, E) ==
    IF N = 0 THEN Zero
    ELSE LET drop == Max(BitLen(N) - Precision, EMin - E)
         IN  IF drop <= 0
             THEN LET up == Min(Precision - BitLen(N), E - EMin)
                  IN  IF E - up > EMax THEN Inf(sg)
                      ELSE [t |-> "fin", s |-> sg, n |-> N * Pow2(up), e |-> E - up]
             ELSE LET q == N \div Pow2(drop)
                      r == N % Pow2(drop)
                      half == Pow2(drop - 1)
                      q1 == IF r > half \/ (r = half /\ q % 2 = 1) THEN q + 1 ELSE q
                      q2 == IF q1 = Pow2(Precision) THEN Pow2(Precision - 1) ELSE q1
                      e2 == IF q1 = Pow2(Precision) THEN E + drop + 1 ELSE E + drop
                  IN  IF q2 = 0 THEN Zero
                      ELSE IF e2 > EMax THEN Inf(sg)
                      ELSE [t |-> "fin", s |-> sg, n |-> q2, e |-> e2]

\* The f32 of an integer literal.
FromInt(i) == Round(Sign(i), Abs(i), 0)

\* x * y on f32.
mul(x, y) ==
    IF x.t = "nan" \/ y.t = "nan" THEN NaN
    ELSE IF x.t = "inf" \/ y.t = "inf"
         THEN IF IsZero(x) \/ IsZero(y) THEN NaN ELSE Inf(x.s * y.s)
         ELSE Round(x.s * y.s, x.n * y.n, x.e + y.e)

\* x + y on f32.
add(x, y) ==
    IF x.t = "nan" \/ y.t = "nan" THEN NaN
    ELSE IF x.t = "inf" /\ y.t = "inf"
         THEN IF x.s = y.s THEN x ELSE NaN
         ELSE IF x.t = "inf" THEN x
         ELSE IF y.t = "inf" THEN y
         ELSE LET e == Min(x.e, y.e)
                  sum == x.s * x.n * Pow2(x.e - e) + y.s * y.n * Pow2(y.e - e)
              IN  Round(Sign(sum), Abs(sum), e)

\* x / y on f32.
div(x, y) ==
    IF x.t = "nan" \/ y.t = "nan" THEN NaN
    ELSE IF x.t = "inf"
         THEN IF y.t = "inf" THEN NaN ELSE Inf(x.s * y.s)
         ELSE IF y.t = "inf" THEN Zero
         ELSE IF IsZero(y)
              THEN IF IsZero(x) THEN NaN ELSE Inf(x.s * y.s)
              ELSE LET k == 2 * Precision + 2
                       q == (x.n * Pow2(k)) \div y.n
                       sticky == IF (x.n * Pow2(k)) % y.n = 0 THEN 0 ELSE 1
                   IN  Round(x.s * y.s, 2 * q + sticky, x.e - y.e - k - 1)

\* The integer square root of the natural number n.
ISqrt(n) == CHOOSE r \in 0..Pow2(2 * Precision + 2) : r * r <= n /\ n < (r + 1) * (r + 1)

\* x.sqrt() on f32.
sqrt(x) ==
    IF x.t = "nan" THEN NaN
    ELSE IF IsZero(x) THEN Zero
    ELSE IF x.s < 0 THEN NaN
    ELSE IF x.t = "inf" THEN x
    ELSE LET k == IF (x.e - 2 * Precision - 2) % 2 = 0
                  THEN 2 * Precision + 2 ELSE 2 * Precision + 3
             big == x.n * Pow2(k)
             r == ISqrt(big)
             sticky == IF r * r = big THEN 0 ELSE 1
         IN  Round(1, 2 * r + sticky, ((x.e - k) \div 2) - 1)

\* a.partial_cmp(b): "less", "equal", "greater", or "none" when either is NaN.
partial_cmp(x, y) ==
    IF x.t = "nan" \/ y.t = "nan" THEN "none"
    ELSE LET rank(z) == IF z.t = "inf" THEN z.s * 2 ELSE IF IsZero(z) THEN 0 ELSE z.s
         IN  IF rank(x) # rank(y)
             THEN (IF rank(x) < rank(y) THEN "less" ELSE "greater")
             ELSE IF x.t = "inf" \/ IsZero(x) THEN "equal"
             ELSE LET e == Min(x.e, y.e)
                      vx == x.s * x.n * Pow2(x.e - e)
                      vy == y.s * y.n * Pow2(y.e - e)
                  IN  IF vx < vy THEN "less" ELSE IF vx > vy THEN "greater" ELSE "equal"

(* ======================= vector.rs ======================= *)

\* iter().sum::<f32>() over the f32 sequence xs.
RECURSIVE sum(_)
sum(xs) == IF xs = << >> THEN Zero ELSE add(sum(SubSeq(xs, 1, Len(xs) - 1)), xs[Len(xs)])

\* cosine_similarity, lines 72-86.
cosine_similarity(a, b) ==
    IF Len(a) # Len(b) \/ Len(a) = 0 THEN Zero
    ELSE LET dot_product == sum([i \in 1..Len(a) |-> mul(a[i], b[i])])
             magnitude_a == sqrt(sum([i \in 1..Len(a) |-> mul(a[i], a[i])]))
             magnitude_b == sqrt(sum([i \in 1..Len(b) |-> mul(b[i], b[i])]))
         IN  IF IsZero(magnitude_a) \/ IsZero(magnitude_b) THEN Zero
             ELSE div(dot_product, mul(magnitude_a, magnitude_b))

\* The permutations of 1..n, as sequences.
Perms(n) == {p \in [1..n -> 1..n] : \A i, j \in 1..n : p[i] = p[j] => i = j}

\* The comparator of search, line 50: b.similarity.partial_cmp(&a.similarity)
\* with None taken as Equal.
compare(sim_a, sim_b) ==
    LET c == partial_cmp(sim_b, sim_a) IN IF c = "none" THEN "equal" ELSE c

\* results.sort_by(compare), line 50: the orders the sort can leave the
\* results in, as sequences of positions of sims.  The sort is stable; when
\* compare is not a total order (a NaN similarity compares Equal to
\* everything) the resulting order is unspecified.
sort_by(sims) ==
    IF \E i \in 1..Len(sims) : sims[i].t = "nan"
    THEN Perms(Len(sims))
    ELSE {p \in Perms(Len(sims)) :
            \A i, j \in 1..Len(sims) :
               i < j => /\ compare(sims[p[i]], sims[p[j]]) # "greater"
                        /\ compare(sims[p[i]], sims[p[j]]) = "equal" => p[i] < p[j]}

\* results.truncate(limit), line 53.
truncate(results, limit) == SubSeq(results, 1, Min(limit, Len(results)))

(* ======================= rag.rs ======================= *)

\* A string is a sequence of runs [c, n]: n > 0 times the character c.
\* "a" stands for a letter, "1" for a digit, "e2" for a letter whose UTF-8
\* form has 2 bytes, " " for white space.
Run(c, n) == [c |-> c, n |-> n]

Utf8Len(c) == IF c = "e2" THEN 2 ELSE 1

\* str::len: the length in bytes.
RECURSIVE len(_)
len(str) == IF str = << >> THEN 0 ELSE str[1].n * Utf8Len(str[1].c) + len(Tail(str))

\* str::trim_start_matches and trim_end_matches, for a pattern given as the
\* set of characters it matches.
RECURSIVE trim_start_matches(_, _)
trim_start_matches(str, pattern) ==
    IF str # << >> /\ str[1].c \in pattern THEN trim_start_matches(Tail(str), pattern) ELSE str

RECURSIVE trim_end_matches(_, _)
trim_end_matches(str, pattern) ==
    IF str # << >> /\ str[Len(str)].c \in pattern
    THEN trim_end_matches(SubSeq(str, 1, Len(str) - 1), pattern)
    ELSE str

\* The characters with char::is_whitespace.
is_whitespace == {" "}

\* str::trim.
trim(str) == trim_end_matches(trim_start_matches(str, is_whitespace), is_whitespace)

starts_with(str, c) == str # << >> /\ str[1].c = c

\* The closure of line 200: c.is_numeric() || c == '.' || c == ')' || c == ' '.
is_list_marker == {"1", ".", ")", " "}

\* expand_query, lines 192-196: the condition on a trimmed line.
accepts(trimmed) ==
    /\ trimmed # << >>
    /\ len(trimmed) > 3
    /\ len(trimmed) < 500
    /\ ~starts_with(trimmed, "-")
    /\ ~starts_with(trimmed, "*")

\* expand_query, lines 190-205: the queries pushed for the lines of the
\* response.
RECURSIVE parse_expansion(_)
parse_expansion(lines) ==
    IF lines = << >> THEN << >>
    ELSE LET trimmed == trim(Head(lines))
             cleaned == trim_start_matches(trimmed, is_list_marker)
         IN  (IF accepts(trimmed) /\ cleaned # << >> THEN <<cleaned>> ELSE << >>)
             \o parse_expansion(Tail(lines))

limit_queries_off(queries) == queries

\* expand_query, line 213: queries.truncate(4).
limit_queries(queries) == truncate(queries, 4)

\* expand_query, lines 153-216; generated is the outcome of
\* llm_provider.generate: [ok |-> FALSE] or the lines of its response.
expand_query(query, generated) ==
    limit_queries(<<query>> \o (IF generated.ok THEN parse_expansion(generated.lines)
                                              ELSE << >>))

MIN_SIMILARITY_THRESHOLD == div(FromInt(1), FromInt(4))

\* VectorStore::search (vector.rs 38-55) for a store whose chunk i has the
\* similarity sims[i] to the query: the result lists it can return, each
\* entry the chunk's id and its similarity.
search_results(sims, limit) ==
    {truncate([i \in 1..Len(sims) |-> [id |-> p[i], similarity |-> sims[p[i]]]], limit) :
        p \in sort_by(sims)}

\* query, lines 103-108: the results of one search are appended, except
\* those whose id was seen.
RECURSIVE push_unseen(_, _)
push_unseen(all_results, results) ==
    IF results = << >> THEN all_results
    ELSE push_unseen(
            IF \E i \in 1..Len(all_results) : all_results[i].id = Head(results).id
            THEN all_results
            ELSE Append(all_results, Head(results)),
            Tail(results))

\* query, lines 96-109: the loop over the expanded queries.
RECURSIVE merge(_)
merge(per_query) ==
    IF per_query = << >> THEN << >>
    ELSE push_unseen(merge(SubSeq(per_query, 1, Len(per_query) - 1)), per_query[Len(per_query)])

\* query, lines 112-115: sort_by and truncate of the merged results.
fused_results(all_results) ==
    {truncate([i \in 1..Len(all_results) |-> all_results[p[i]]], MAX_CONTEXT_CHUNKS) :
        p \in sort_by([i \in 1..Len(all_results) |-> all_results[i].similarity])}

above_any(similarity) == TRUE

\* query, line 120: r.similarity >= MIN_SIMILARITY_THRESHOLD.
above_threshold(similarity) ==
    partial_cmp(similarity, MIN_SIMILARITY_THRESHOLD) \in {"greater", "equal"}

\* query, lines 118-121.
relevant_results(all_results) == SelectSeq(all_results, LAMBDA r : above_threshold(r.similarity))

\* build_context, lines 218-240: the sources of the context, in order; none
\* stands for the sentence used when there is no result.
build_context_empty(results) ==
    [none |-> FALSE, sources |-> [i \in 1..Len(results) |-> results[i].id]]

build_context(results) ==
    [none |-> results = << >>, sources |-> [i \in 1..Len(results) |-> results[i].id]]

(* ======================= pure functions ======================= *)

NoCall == [op |-> "none"]

\* Bit patterns of f32 values: 0.0, the least subnormal, 1.0, infinity, two
\* NaNs, the greatest pattern and one whose 4 bytes all differ, of each sign.
F32Samples ==
    {F32Bits(sg, r) : sg \in {0, 1},
                      r \in {0, 1, 1065353216, 2139095040, 2139095041,
                              2143289344, 2147483647, 16909060}}

\* The sequences over S of length at most n.
SeqsUpTo(S, n) == UNION {[1..k -> S] : k \in 0..n}

\* db.rs: the vector insert_embedding stores (line 228, embedding_to_bytes
\* into the BLOB column) and get_all_embeddings reads back (line 266,
\* bytes_to_embedding of the column).
embedding_blob_call ==
    /\ ck.pc = "idle"
    /\ call.op = "none"
    /\ \E embedding \in SeqsUpTo(F32Samples, MaxDim) :
         call' = [op |-> "blob", v |-> embedding,
                  bytes |-> embedding_to_bytes(embedding),
                  back |-> bytes_to_embedding(embedding_to_bytes(embedding))]
    /\ UNCHANGED <<chatvars, storevars, engine, lockvars, ck>>

\* The greatest power of two and the least positive value of the format.
Huge == Round(1, 1, EMax + Precision - 1)

Tiny == Round(1, 1, EMin)

Components == {Zero, FromInt(1), FromInt(0 - 1), FromInt(2), Huge, Tiny}

\* vector.rs: a call of cosine_similarity.
cosine_similarity_call ==
    /\ ck.pc = "idle"
    /\ call.op = "none"
    /\ \E a, b \in SeqsUpTo(Components, MaxDim) :
         call' = [op |-> "cosine", a |-> a, b |-> b, result |-> cosine_similarity(a, b)]
    /\ UNCHANGED <<chatvars, storevars, engine, lockvars, ck>>

SearchQueries == {<<FromInt(1), Zero>>, <<FromInt(2), Zero>>}

SearchVectors ==
    {<<FromInt(1), Zero>>, <<FromInt(1), FromInt(1)>>, <<Zero, FromInt(1)>>, <<Huge, Zero>>}

\* vector.rs: search, lines 31-56, over a store holding the embeddings
\* `stored`; db_ok is whether get_all_embeddings succeeds.
search ==
    /\ ck.pc = "idle"
    /\ call.op = "none"
    /\ \E query \in SearchQueries, limit \in 0..(MaxChunks + 1), db_ok \in BOOLEAN,
          stored \in SeqsUpTo(SearchVectors, MaxChunks) :
         IF ~db_ok
         THEN call' = [op |-> "search", query |-> query, limit |-> limit, stored |-> stored,
                       sims |-> << >>, err |-> TRUE, results |-> << >>]
         ELSE LET sims == [i \in 1..Len(stored) |-> cosine_similarity(query, stored[i])]
              IN  \E results \in sort_by(sims) :
                    call' = [op |-> "search", query |-> query, limit |-> limit,
                             stored |-> stored, sims |-> sims, err |-> FALSE,
                             results |-> truncate(results, limit)]
    /\ UNCHANGED <<chatvars, storevars, engine, lockvars, ck>>

LineChars == {"a", "1", ".", ")", " ", "-", "*", "e2"}

RunLengths == {1, 3, 4, 250, 499, 500}

\* The lines of one or two runs, and some longer ones: a numbered query, a
\* query between spaces, a bulleted one.
OneRun == {<<Run(c, n)>> : c \in LineChars, n \in RunLengths}

Usable == <<Run("a", 4)>>

Numbered == <<Run("1", 1), Run(".", 1), Run(" ", 1), Run("a", 3), Run("1", 1)>>

Bulleted == <<Run("-", 1), Run(" ", 1), Run("a", 4)>>

Padded == <<Run(" ", 3), Run("a", 3), Run(" ", 1), Run("e2", 1), Run(" ", 1)>>

Lines ==
    {<< >>} \cup OneRun \cup {x \o y : x, y \in OneRun} \cup {Numbered, Padded, Bulleted}

\* The outcomes of llm_provider.generate: an error, one line of any kind,
\* up to 5 lines of a few kinds.
Generated ==
    {[ok |-> FALSE, lines |-> << >>]}
      \cup {[ok |-> TRUE, lines |-> <<l>>] : l \in Lines}
      \cup {[ok |-> TRUE, lines |-> ls] : ls \in SeqsUpTo({Usable, Numbered, Bulleted, << >>}, 5)}

Questions == {<<Run("a", 2)>>, <<Run(" ", 1), Run("-", 1), Run("a", 500)>>}

\* rag.rs: a call of expand_query.
expand_query_call ==
    /\ ck.pc = "idle"
    /\ call.op = "none"
    /\ \E query \in Questions, generated \in Generated :
         call' = [op |-> "expand", query |-> query, generated |-> generated,
                  queries |-> expand_query(query, generated)]
    /\ UNCHANGED <<chatvars, storevars, engine, lockvars, ck>>

\* Similarities below, at and above the threshold.
Similarities == {div(FromInt(1), FromInt(8)), div(FromInt(1), FromInt(4)),
                 div(FromInt(1), FromInt(2))}

\* 0.9, 0.5, 0.3, 0.25, 0.2 and 0.1 as f32.
Graded ==
    << div(FromInt(9), FromInt(10)), div(FromInt(1), FromInt(2)), div(FromInt(3), FromInt(10)),
       div(FromInt(1), FromInt(4)), div(FromInt(1), FromInt(5)), div(FromInt(1), FromInt(10)) >>

\* The similarities of the chunks of a store to one query.  For a store of
\* up to MaxChunks chunks: any of Similarities, or NaN for one chunk and one
\* of them for the others; for one of MAX_CONTEXT_CHUNKS + 1 chunks the
\* graded ones, in the order of the chunks or against it.
StoreSimilarities(n) ==
    IF n <= MaxChunks
    THEN [1..n -> Similarities]
           \cup {[i \in 1..n |-> IF i = k THEN NaN ELSE x] : k \in 1..n, x \in Similarities}
    ELSE {Graded, [i \in 1..n |-> Graded[n + 1 - i]]}

\* rag.rs: query, lines 95-126, for two expanded queries.
fuse_call ==
    /\ ck.pc = "idle"
    /\ call.op = "none"
    /\ \E n \in (0..MaxChunks) \cup {MAX_CONTEXT_CHUNKS + 1} :
         \E sims1, sims2 \in StoreSimilarities(n) :
           \E results1 \in search_results(sims1, MAX_CONTEXT_CHUNKS),
              results2 \in search_results(sims2, MAX_CONTEXT_CHUNKS) :
             \E all_results \in fused_results(merge(<<results1, results2>>)) :
               call' = [op |-> "fuse", per_query |-> <<results1, results2>>,
                        all_results |-> all_results,
                        context |-> build_context(relevant_results(all_results))]
    /\ UNCHANGED <<chatvars, storevars, engine, lockvars, ck>>

\* The call returns.
call_return ==
    /\ call.op # "none"
    /\ call' = NoCall
    /\ UNCHANGED <<chatvars, storevars, engine, lockvars, ck>>

(* ======================= chat ======================= *)

\* db.rs, insert_chat_message, lines 275-288: the table with one more row,
\* whose id is the next AUTOINCREMENT value and whose timestamp is the
\* clock's second.  The table is kept in the order of insertion.
insert_chat_message(rows, role, content) ==
    Append(rows, [id |-> Len(rows) + 1, role |-> role, content |-> content,
                  timestamp |-> now])

\* db.rs, get_chat_history, lines 290-306: SELECT ... ORDER BY timestamp ASC.
\* The rows come in ascending timestamp; SQLite leaves the order of rows
\* with equal timestamps undefined.
get_chat_history(rows) ==
    {[i \in 1..Len(rows) |-> rows[p[i]]] :
        p \in {q \in Perms(Len(rows)) :
                 \A i, j \in 1..Len(rows) :
                    i < j => rows[q[i]].timestamp <= rows[q[j]].timestamp}}

\* The clock of insert_chat_message (SystemTime::now, in seconds) advances.
tick ==
    /\ now < MaxTime
    /\ now' = now + 1
    /\ UNCHANGED <<storevars, engine, lockvars, fnvars, chat_messages, sm>>

\* The send_message command: n counts the calls, question is the text
\* sent, chat_history the turns read at line 110, user the id of the user
\* turn; queries, next and expansion belong to the retrieval; buffer,
\* full_response, chunks and stream to generate_stream (stream tells how the
\* byte stream went: whether a line was malformed, whether the record with
\* done = true came, whether an unterminated line was left); events are the
\* stream-chunk notifications; outcome is the result of RagEngine::query,
\* assistant whether the insert of the assistant's turn succeeded and
\* result the result of the command.  all_results and context belong to
\* query: the fused results and the context built of those that are
\* relevant.  The locals of query and generate_stream are dropped when
\* they return.  retrieval records that an embedding request or a search
\* of the query failed.
SmIdle ==
    [pc |-> "idle", n |-> 0, question |-> << >>, chat_history |-> << >>, user |-> 0,
     queries |-> << >>, next |-> 0, expansion |-> "none",
     buffer |-> << >>, full_response |-> << >>, chunks |-> 0,
     stream |-> [started |-> FALSE, malformed |-> FALSE, marker |-> FALSE, partial |-> FALSE,
                 error |-> FALSE],
     events |-> << >>, outcome |-> "none", assistant |-> "none", result |-> "none",
     all_results |-> << >>, context |-> [none |-> FALSE, sources |-> << >>],
     retrieval |-> "none"]

\* The text of the n-th question.
Question(n) == <<Run("a", n + 3)>>

\* send_message, main.rs 110-113: the history is read and the user's turn
\* stored; either can fail, which ends the command.
send_message ==
    /\ sm.pc = "idle"
    /\ sm.n < MaxMessages
    /\ \E read_ok, insert_ok \in BOOLEAN :
         \E rows \in get_chat_history(chat_messages) :
           IF read_ok /\ insert_ok
           THEN /\ chat_messages' = insert_chat_message(chat_messages, "user",
                                                        Question(sm.n + 1))
                /\ sm' = [SmIdle EXCEPT !.pc = "expand", !.n = sm.n + 1,
                                        !.question = Question(sm.n + 1),
                                        !.chat_history = rows,
                                        !.user = Len(chat_messages) + 1]
           ELSE /\ sm' = [SmIdle EXCEPT !.pc = "returned", !.n = sm.n + 1,
                                        !.question = Question(sm.n + 1),
                                        !.result = "err"]
                /\ UNCHANGED chat_messages
    /\ UNCHANGED <<storevars, engine, lockvars, fnvars, now>>

on_generate_error_fail(queries) == [ok |-> FALSE, queries |-> << >>]

\* expand_query, rag.rs 207-209: the provider's error is logged only.
on_generate_error(queries) == [ok |-> TRUE, queries |-> queries]

\* The outcomes of the provider's generate call during a query: an error,
\* one usable line, five lines.
ChatGenerated ==
    {[ok |-> FALSE, lines |-> << >>],
     [ok |-> TRUE, lines |-> <<Usable>>],
     [ok |-> TRUE, lines |-> <<Usable, Numbered, Bulleted, Usable, Usable>>]}

\* query, rag.rs 92: the question is expanded.
query_expand ==
    /\ sm.pc = "expand"
    /\ \E generated \in ChatGenerated :
         LET expanded == IF generated.ok
                         THEN [ok |-> TRUE, queries |-> expand_query(sm.question, generated)]
                         ELSE on_generate_error(expand_query(sm.question, generated))
         IN  sm' = IF expanded.ok
                   THEN [sm EXCEPT !.pc = "retrieve", !.queries = expanded.queries,
                                   !.next = 1,
                                   !.expansion = IF generated.ok THEN "ok" ELSE "failed"]
                   ELSE [sm EXCEPT !.pc = "respond", !.outcome = "err",
                                   !.expansion = "failed"]
    /\ UNCHANGED <<storevars, engine, lockvars, fnvars, chat_messages, now>>

retrieval_error_skipped(s) == [s EXCEPT !.next = @ + 1]

\* query, rag.rs 100-101: the `?` after embed and after search returns the
\* error from query.
retrieval_error(s) == [s EXCEPT !.pc = "respond", !.outcome = "err"]

\* query, rag.rs 99-109: the next query is embedded and searched; either
\* can fail, which ends the query.
query_retrieve ==
    /\ sm.pc = "retrieve"
    /\ sm.next <= Len(sm.queries)
    /\ \E embed_ok, search_ok \in BOOLEAN :
         sm' = IF embed_ok /\ search_ok
               THEN [sm EXCEPT !.next = @ + 1]
               ELSE retrieval_error([sm EXCEPT !.retrieval = "failed"])
    /\ UNCHANGED <<storevars, engine, lockvars, fnvars, chat_messages, now>>

\* The fused results of a query: none when the store is empty, one below
\* the threshold, one above it.
ChatResults ==
    {<< >>,
     <<[id |-> 1, similarity |-> div(FromInt(1), FromInt(8))]>>,
     <<[id |-> 1, similarity |-> div(FromInt(1), FromInt(2))]>>}

\* query, rag.rs 111-141, and generate_stream, ollama.rs 64-84: the results
\* are fused, the prompt is built and the streaming request is sent; the
\* request can fail or be answered with an error status.
query_generate ==
    /\ sm.pc = "retrieve"
    /\ sm.next > Len(sm.queries)
    /\ \E answer \in {"request_error", "status_error", "success"},
          all_results \in ChatResults :
         sm' = IF answer = "success"
               THEN [sm EXCEPT !.pc = "stream", !.stream.started = TRUE,
                               !.all_results = all_results,
                               !.context = build_context(relevant_results(all_results))]
               ELSE [sm EXCEPT !.pc = "respond", !.outcome = "err"]
    /\ UNCHANGED <<storevars, engine, lockvars, fnvars, chat_messages, now>>

\* What the byte stream is made of: "R" and "S" are the texts of two
\* records with a fragment and done = false, "D" the one of a record with
\* an empty response and done = true, "X" a text that is no record, "NL"
\* the newline.  Two texts with no newline between them are no record.
Tokens == {"R", "S", "D", "X", "NL"}

\* serde_json::from_str::<GenerateResponse>, ollama.rs 101, of a line that
\* is not blank.
from_str(line) ==
    IF line = <<"R">> THEN [ok |-> TRUE, response |-> "R", done |-> FALSE]
    ELSE IF line = <<"S">> THEN [ok |-> TRUE, response |-> "S", done |-> FALSE]
    ELSE IF line = <<"D">> THEN [ok |-> TRUE, response |-> "", done |-> TRUE]
    ELSE [ok |-> FALSE, response |-> "", done |-> FALSE]

\* The position of the first newline of the buffer, 0 when there is none.
find(buffer) ==
    IF \E i \in 1..Len(buffer) : buffer[i] = "NL"
    THEN CHOOSE i \in 1..Len(buffer) : buffer[i] = "NL" /\ \A j \in 1..(i - 1) : buffer[j] # "NL"
    ELSE 0

push_str_front(full_response, response) == <<response>> \o full_response

\* full_response.push_str(&gen_response.response), ollama.rs 104.
push_str(full_response, response) == Append(full_response, response)

\* generate_stream, ollama.rs 93-111: the complete lines of the buffer are
\* taken in turn.  st holds the buffer, the fragments passed to on_chunk,
\* full_response, and whether the function returned (line 108).
RECURSIVE process_lines(_)
process_lines(st) ==
    IF find(st.buffer) = 0 THEN st
    ELSE LET line == SubSeq(st.buffer, 1, find(st.buffer) - 1)
             rest == SubSeq(st.buffer, find(st.buffer) + 1, Len(st.buffer))
             parsed == from_str(line)
         IN  IF line = << >> THEN process_lines([st EXCEPT !.buffer = rest])
             ELSE IF ~parsed.ok
             THEN process_lines([st EXCEPT !.buffer = rest, !.malformed = TRUE])
             ELSE LET st2 == IF parsed.response # ""
                             THEN [st EXCEPT !.buffer = rest,
                                             !.emitted = Append(@, parsed.response),
                                             !.full_response = push_str(@, parsed.response)]
                             ELSE [st EXCEPT !.buffer = rest]
                  IN  IF parsed.done THEN [st2 EXCEPT !.returned = TRUE]
                      ELSE process_lines(st2)

\* The stream-chunk notification of a fragment (rag.rs 136-139) and the one
\* of the completion (rag.rs 144-147).
Fragment(content) == [content |-> content, done |-> FALSE]

Done == [content |-> "", done |-> TRUE]

\* generate_stream, ollama.rs 86-111, and query, rag.rs 135-149: the next
\* chunk of the byte stream arrives, a sequence of one or two tokens; when
\* the record with done = true is in it the function returns, the completion
\* is notified and the query returns the answer.
stream_chunk ==
    /\ sm.pc = "stream"
    /\ sm.chunks < MaxStream
    /\ \E chunk \in SeqsUpTo(Tokens, 2) \ {<< >>} :
         LET st == process_lines([buffer |-> sm.buffer \o chunk, emitted |-> << >>,
                                  full_response |-> sm.full_response,
                                  malformed |-> sm.stream.malformed, returned |-> FALSE])
             events == sm.events \o [i \in 1..Len(st.emitted) |-> Fragment(st.emitted[i])]
         IN  sm' = IF st.returned
                   THEN [sm EXCEPT !.pc = "respond", !.outcome = "ok",
                                   !.buffer = << >>, !.full_response = st.full_response,
                                   !.chunks = @ + 1, !.stream.malformed = st.malformed,
                                   !.stream.marker = TRUE,
                                   !.events = Append(events, Done),
                                   !.all_results = << >>,
                                   !.context = SmIdle.context]
                   ELSE [sm EXCEPT !.buffer = st.buffer, !.full_response = st.full_response,
                                   !.chunks = @ + 1, !.stream.malformed = st.malformed,
                                   !.events = events]
    /\ UNCHANGED <<storevars, engine, lockvars, fnvars, chat_messages, now>>

\* generate_stream, ollama.rs 87: reading the stream fails; the query fails
\* with it (rag.rs 141).
stream_error ==
    /\ sm.pc = "stream"
    /\ sm' = [sm EXCEPT !.pc = "respond", !.outcome = "err", !.stream.error = TRUE,
                        !.buffer = << >>, !.all_results = << >>,
                        !.context = SmIdle.context]
    /\ UNCHANGED <<storevars, engine, lockvars, fnvars, chat_messages, now>>

\* generate_stream, ollama.rs 86 and 114: the byte stream is over; what is
\* left in the buffer is dropped, the function returns full_response, the
\* completion is notified and the query returns the answer.
stream_end ==
    /\ sm.pc = "stream"
    /\ sm' = [sm EXCEPT !.pc = "respond", !.outcome = "ok",
                        !.stream.partial = sm.buffer # << >>,
                        !.events = Append(@, Done),
                        !.buffer = << >>, !.all_results = << >>,
                        !.context = SmIdle.context]
    /\ UNCHANGED <<storevars, engine, lockvars, fnvars, chat_messages, now>>

failure_turn_none(rows, insert_ok) == rows

\* send_message, main.rs 125-127: the turn that tells of the error is
\* stored; a failure of the insert is ignored.
failure_turn(rows, insert_ok) ==
    IF insert_ok THEN insert_chat_message(rows, "assistant", <<"Error">>) ELSE rows

\* send_message, main.rs 118-129: the query has ended; the assistant's turn
\* is stored and the command returns.
send_message_respond ==
    /\ sm.pc = "respond"
    /\ \E insert_ok \in BOOLEAN :
         IF sm.outcome = "ok"
         THEN IF insert_ok
              THEN /\ chat_messages' = insert_chat_message(chat_messages, "assistant",
                                                           sm.full_response)
                   /\ sm' = [sm EXCEPT !.pc = "returned", !.result = "ok",
                                           !.assistant = "stored"]
              ELSE /\ sm' = [sm EXCEPT !.pc = "returned", !.result = "err",
                                           !.assistant = "failed"]
                   /\ UNCHANGED chat_messages
         ELSE /\ chat_messages' = failure_turn(chat_messages, insert_ok)
              /\ sm' = [sm EXCEPT !.pc = "returned", !.result = "err",
                                      !.assistant = IF insert_ok THEN "stored" ELSE "failed"]
    /\ UNCHANGED <<storevars, engine, lockvars, fnvars, now>>

\* The caller has the result.
send_message_return ==
    /\ sm.pc = "returned"
    /\ sm' = [SmIdle EXCEPT !.n = sm.n]
    /\ UNCHANGED <<storevars, engine, lockvars, fnvars, chat_messages, now>>

(* ======================= specification ======================= *)

Init ==
    /\ foreign_keys \in BOOLEAN
    /\ artifacts = {}
    /\ embeddings = {}
    /\ next_id = 1
    /\ engine = [some |-> FALSE, status |-> SyncStatusDefault]
    /\ v = VIdle
    /\ o = OIdle
    /\ d = DIdle
    /\ faults = 0
    /\ commands = 0
    /\ locks = LocksFree
    /\ config = ConfigInit
    /\ tasks = TasksIdle
    /\ ck = CkIdle
    /\ call = NoCall
    /\ chat_messages = << >>
    /\ now = 0
    /\ sm = SmIdle
    /\ calls = [i \in Invocations |-> CallIdle]

Next ==
    \/ \E valid \in BOOLEAN, present \in SUBSET Paths : sync_vault(valid, present)
    \/ process_file
    \/ process_file_delete
    \/ process_file_upsert
    \/ process_file_embed
    \/ process_file_insert
    \/ sync_vault_finish
    \/ sync_vault_return
    \/ remove_file
    \/ remove_file_return
    \/ sync_outline
    \/ sync_outline_lookup
    \/ sync_outline_lookup2
    \/ sync_outline_delete
    \/ sync_outline_upsert
    \/ sync_outline_embed
    \/ sync_outline_insert
    \/ sync_outline_finish
    \/ delete_artifact_embeddings
    \/ delete_artifact

Spec == Init /\ [][Next]_vars

\* The pure functions: chunk_text run step by step, the others called on
\* inputs drawn from bounded sets.
FnNext ==
    \/ chunk_text_call
    \/ chunk_text_step
    \/ chunk_text_exit
    \/ chunk_text_return
    \/ embedding_blob_call
    \/ cosine_similarity_call
    \/ search
    \/ expand_query_call
    \/ fuse_call
    \/ call_return

FnSpec == Init /\ [][FnNext]_vars

\* The commands and the locks.
LockNext ==
    \/ command_sync_vault
    \/ command_sync_vault_begin
    \/ command_sync_vault_file
    \/ command_sync_vault_end
    \/ command_get_sync_status
    \/ command_get_sync_status_read
    \/ command_get_sync_status_return
    \/ command_send_message
    \/ command_send_message_begin
    \/ command_send_message_request
    \/ command_send_message_end
    \/ command_save_settings
    \/ command_save_settings_rag
    \/ command_save_settings_ingest
    \/ command_sync_outline
    \/ command_sync_outline_request
    \/ command_sync_outline_end

LockSpec == Init /\ [][LockNext]_vars

\* Two invocations of the sync_vault command.
BatchNext ==
    \/ \E i \in Invocations : sync_vault_invoke(i)
    \/ \E i \in Invocations : sync_vault_locked(i)
    \/ \E i \in Invocations : sync_vault_file(i)
    \/ \E i \in Invocations : sync_vault_end(i)
    \/ \E i \in Invocations : sync_vault_returned(i)

BatchSpec == Init /\ [][BatchNext]_vars

\* The conversation: send_message with the query it runs, and the clock.
ChatNext ==
    \/ tick
    \/ send_message
    \/ query_expand
    \/ query_retrieve
    \/ query_generate
    \/ stream_chunk
    \/ stream_error
    \/ stream_end
    \/ send_message_respond
    \/ send_message_return

ChatSpec == Init /\ [][ChatNext]_vars

(* ======================= claims ======================= *)

\* The program counter values of process_file after its lookup.
PfPcs == {"pf_delete", "pf_upsert", "pf_embed", "pf_insert"}

\* The program counter values of one sync_outline iteration after its lookup.
OPcs == {"o_lookup2", "o_delete", "o_upsert", "o_embed", "o_insert"}

\* The store holds, for path, a record this pass did not write (its id is
\* not aid) whose fingerprint is the fingerprint of content c.
SameRecord(path, c, aid) ==
    LET a == get_artifact_by_path(path)
    IN  a.id # NoId /\ a.id # aid /\ c # NoFile /\ a.content_hash = compute_hash(c)

\* process_file returns on this step, for a path that had a record when the
\* pass looked it up, and no file access, store call or embedding request
\* has failed so far.
ReindexReturns ==
    /\ v.pc \in PfPcs
    /\ v.existing # NoId
    /\ v'.pc = "loop"
    /\ v'.result \notin {"io", "db", "embed"}
    /\ faults' = 0

\* The (chunk_index, content) pairs the table embs holds for artifact aid.
ChunkRows(embs, aid) ==
    {<<e.chunk_index, e.content>> : e \in {x \in embs : x.artifact_id = aid}}

\* The chunks chunk_text produces for content c, as (index, content) pairs.
NewChunks(c) == {<<i, <<c, i>>>> : i \in 0..(parse_content(c).nchunks - 1)}

\* C1: while process_file or a sync_outline iteration handles a document
\* whose stored record has the fingerprint of the content it read, it
\* issues no embedding request and writes nothing to the store.
C1_UnchangedNeverReembedded ==
    [][ /\ (o' # o /\ o.pc \in OPcs /\ SameRecord(o.path, o.c, o.aid))
            => (o.pc # "o_embed" /\ embeddings' = embeddings /\ artifacts' = artifacts)
        /\ (v' # v /\ v.pc \in PfPcs /\ SameRecord(v.path, v.c, v.aid))
            => (v.pc # "pf_embed" /\ embeddings' = embeddings /\ artifacts' = artifacts)
      ]_vars

\* C2: when process_file ingests a path that already has a record with a
\* different fingerprint and no embedding request, file access or store call
\* fails, then on return the path's record carries the new fingerprint, its
\* chunks are exactly the new chunks 0..n-1, and no chunk of the old record
\* remains.
C2_FullReplacementOnChange ==
    [][ ReindexReturns =>
          LET a == RecordIn(artifacts', v.path)
          IN  /\ a.content_hash = compute_hash(v.c)
              /\ ChunkRows(embeddings', a.id) = NewChunks(v.c)
              /\ ChunkRows(embeddings', v.existing) \subseteq NewChunks(v.c)
      ]_vars

\* C3: re-indexing a path that already has a record updates that record in
\* place: after the pass the path's record has the id it had before and the
\* fingerprint of the content just read.
C3_RecordUpdatedInPlace ==
    [][ ReindexReturns =>
          LET a == RecordIn(artifacts', v.path)
          IN  a.id = v.existing /\ a.content_hash = compute_hash(v.c)
      ]_vars

\* C4: in every reachable state the store holds at most one record per path.
C4_OneRecordPerPath ==
    \A a \in artifacts : \A b \in artifacts : a.path = b.path => a = b

\* C4 witness: process_file offered a fresh id for a path that already had
\* a record, the store refused it, and the path still has its record.
C4_Witness ==
    /\ ~foreign_keys
    /\ v.pc = "loop"
    /\ v.result = "constraint"
    /\ get_artifact_by_path(v.log[Len(v.log)][1]).id # NoId

\* No ingestion is in progress: neither process_file nor a sync_outline
\* iteration is between its lookup and its end.
NoIngestionInProgress == v.pc \notin PfPcs /\ o.pc \notin OPcs

\* C5: once every ingestion has ended, with success or failure, the chunk
\* ordinals stored for each document are exactly 0..m-1 for some m >= 0.
C5_ContiguousOrdinals ==
    NoIngestionInProgress =>
        \A a \in artifacts :
            ChunkIdx(embeddings, a.id) = 0..(Cardinality(ChunkIdx(embeddings, a.id)) - 1)

\* The paths of the files sync_vault has handed to process_file, in order.
LogPaths(log) == [i \in 1..Len(log) |-> log[i][1]]

\* C6: a failing file never aborts the batch: at every point of the loop
\* the files attempted so far followed by the files still to come are the
\* scan, each file once and in scan order; when sync_vault returns,
\* processed_files equals total_files and is_running is false, and a
\* completed batch has attempted every file of the scan.
C6_BatchIsolation ==
    /\ (v.pc \in {"loop"} \cup PfPcs) =>
          /\ Len(v.scan) = engine.status.total_files
          /\ Len(v.log) = engine.status.processed_files
          /\ LogPaths(v.log) \o (IF v.pc = "loop" THEN << >> ELSE <<v.path>>) \o v.files
                = v.scan
    /\ (v.pc = "returned") =>
          /\ engine.status.processed_files = engine.status.total_files
          /\ ~engine.status.is_running
          /\ v.result = "ok" => LogPaths(v.log) = v.scan

\* C6 witness: a batch has returned in which a file failed and a later file
\* was attempted all the same.
C6_Witness ==
    /\ v.pc = "returned"
    /\ v.result = "ok"
    /\ \E i \in 1..(Len(v.log) - 1) : ~ v.log[i][2]

\* C7: when the embedding request for chunk i fails inside process_file,
\* process_file returns the error at once: the chunks requested in the pass
\* are 0..i and those inserted 0..i-1, the store is left as it is, and the
\* batch is back in its loop with the remaining files untouched.
C7_EmbedFailureAbortsDocument ==
    [][ (v.pc = "pf_embed" /\ v' # v /\ faults' # faults) =>
          /\ v'.pc = "loop"
          /\ v'.result = "embed"
          /\ v'.idx = v.idx
          /\ v'.files = v.files
          /\ engine'.status.is_running
          /\ engine'.status.processed_files = engine.status.processed_files + 1
          /\ v.embedded = 0..(v.idx - 1)
          /\ v.inserted = 0..(v.idx - 1)
          /\ embeddings' = embeddings
          /\ ChunkIdx(embeddings', v.aid) \subseteq 0..(v.idx - 1)
      ]_vars

\* C7 witness: the request for chunk 1 failed after chunk 0 was inserted,
\* process_file has returned and another file of the batch is still to come.
C7_Witness ==
    /\ v.pc = "loop"
    /\ v.result = "embed"
    /\ v.idx = 1
    /\ v.files # << >>
    /\ ~ v.log[Len(v.log)][2]

\* C8: Database::delete_artifact deletes the record's chunks with it: after
\* a successful call no chunk of the deleted id is left in the store.
C8_DeleteCascades ==
    [][ delete_artifact_step(TRUE) =>
          \A e \in embeddings' : e.artifact_id # d.id
      ]_vars

C10_DeletedFilesRemoved ==
    (v.pc = "returned" /\ v.result = "ok") =>
        \A a \in artifacts :
            a.path \in Paths => \E i \in 1..Len(v.scan) : v.scan[i] = a.path

\* C17, as the claim states it: a text of 1000 words yields exactly two
\* chunks, words [0, 500) and words [450, 1000).
C17_TwoChunks ==
    (ck.pc = "done" /\ ck.w = 1000) =>
        ck.chunks = <<(<<0, 500>>), (<<450, 1000>>)>>

\* C17, amended: a text of 1000 words yields exactly three chunks, words
\* [0, 500), [450, 950) and [900, 1000).
C17_ThreeChunks ==
    (ck.pc = "done" /\ ck.w = 1000) =>
        /\ ck.chunks = <<(<<0, 500>>), (<<450, 950>>), (<<900, 1000>>)>>
        /\ chunk_text(1000) = ck.chunks

\* C17 witness: chunk_text has returned for a text of 1000 words.
C17_Witness == ck.pc = "done" /\ ck.w = 1000 /\ Len(ck.chunks) > 1

\* The number of words of chunk k of the run.
ChunkLen(k) == ck.chunks[k][2] - ck.chunks[k][1]

\* C18: the sliding window terminates and covers every word: each
\* iteration of the loop moves start strictly forward and never beyond the
\* text, and the chunks returned are slices of the text in document order
\* that together hold every word index 0..w-1, none empty when w > 0.
C18_TerminatesAndCovers ==
    /\ [][ (ck.pc = "loop" /\ ck'.pc = "loop" /\ ck' # ck) =>
              (ck'.start > ck.start /\ ck'.start <= ck.w) ]_vars
    /\ [] ( ck.pc = "done" =>
              /\ \A i \in 0..(ck.w - 1) :
                   \E k \in 1..Len(ck.chunks) :
                       ck.chunks[k][1] <= i /\ i < ck.chunks[k][2]
              /\ \A k \in 1..Len(ck.chunks) :
                   /\ 0 <= ck.chunks[k][1]
                   /\ ck.chunks[k][1] <= ck.chunks[k][2]
                   /\ ck.chunks[k][2] <= ck.w
                   /\ ck.w > 0 => ChunkLen(k) > 0
              /\ \A k \in 1..(Len(ck.chunks) - 1) :
                   /\ ck.chunks[k][1] < ck.chunks[k + 1][1]
                   /\ ck.chunks[k][2] < ck.chunks[k + 1][2] )

\* C18 witness: a run of at least three windows has returned.
C18_Witness == ck.pc = "done" /\ Len(ck.chunks) >= 3 /\ ck.w > 1000

\* C19: for a text of more than 500 words every chunk but the last has
\* exactly 500 words, the last has at most 500, and the last 50 words of
\* each chunk are the first 50 words of the next one.
C19_SizeAndOverlap ==
    (ck.pc = "done" /\ ck.w > 500) =>
        LET n == Len(ck.chunks)
        IN  /\ n >= 2
            /\ \A k \in 1..(n - 1) : ChunkLen(k) = 500
            /\ ChunkLen(n) <= 500
            /\ \A k \in 1..(n - 1) :
                 /\ ChunkLen(k + 1) >= 50
                 /\ ck.chunks[k + 1][1] = ck.chunks[k][2] - 50
            /\ chunk_text(ck.w) = ck.chunks

\* C19 witness: a run has returned whose last chunk is shorter than 500
\* words and follows two full ones.
C19_Witness ==
    /\ ck.pc = "done"
    /\ Len(ck.chunks) = 3
    /\ ChunkLen(3) < 500
    /\ ChunkLen(1) = 500

\* C20: a text of w <= 500 words, the empty text and w = 500 included,
\* yields exactly one chunk, the whole text.
C20_OneChunk ==
    (ck.pc = "done" /\ ck.w <= 500) =>
        /\ ck.chunks = <<(<<0, ck.w>>)>>
        /\ chunk_text(ck.w) = ck.chunks

\* C20 witness: chunk_text has returned for the empty text or for a text of
\* exactly 500 words.
C20_Witness == ck.pc = "done" /\ ck.w \in {0, 500} /\ Len(ck.chunks) = 1

\* C14: search(q, k) over a store of n chunks returns exactly min(k, n)
\* results in order of non-increasing similarity, every returned similarity
\* at least every similarity not returned; an empty store gives the empty
\* sequence, not an error.
C14_TopK ==
    (call.op = "search" /\ ~call.err) =>
        LET n == Len(call.stored)
            res == call.results
            ge(x, y) == partial_cmp(x, y) \in {"greater", "equal"}
        IN  /\ Len(res) = Min(call.limit, n)
            /\ \A i, j \in 1..Len(res) : i < j => ge(call.sims[res[i]], call.sims[res[j]])
            /\ \A i \in 1..Len(res) : \A u \in 1..n :
                  (\A j \in 1..Len(res) : res[j] # u) => ge(call.sims[res[i]], call.sims[u])
            /\ n = 0 => res = << >>

\* The exact dot product of a and b, scaled by 4^ExpRange.
ExactDot(a, b) ==
    LET term(i) == a[i].s * a[i].n * b[i].s * b[i].n * Pow2(a[i].e + b[i].e - 2 * EMin)
        RECURSIVE upto(_)
        upto(i) == IF i = 0 THEN 0 ELSE upto(i - 1) + term(i)
    IN  upto(Len(a))

Negated(a) == [i \in 1..Len(a) |-> IF IsZero(a[i]) THEN a[i] ELSE [a[i] EXCEPT !.s = 0 - a[i].s]]

NonZero(a) == \E i \in 1..Len(a) : ~IsZero(a[i])

\* C15: for equal-length vectors of nonzero magnitude cosine_similarity is
\* 1 for (v, v), -1 for (v, -v), 0 for orthogonal vectors and always within
\* [-1, 1]; it is 0 when the lengths differ, when either vector is empty and
\* when either vector has zero magnitude.
C15_CosineSimilarity ==
    call.op = "cosine" =>
        LET a == call.a
            b == call.b
            r == call.result
        IN  IF Len(a) # Len(b) \/ Len(a) = 0 \/ ~NonZero(a) \/ ~NonZero(b)
            THEN r = Zero
            ELSE /\ partial_cmp(r, FromInt(1)) \in {"less", "equal"}
                 /\ partial_cmp(r, FromInt(0 - 1)) \in {"greater", "equal"}
                 /\ a = b => r = FromInt(1)
                 /\ b = Negated(a) => r = FromInt(0 - 1)
                 /\ ExactDot(a, b) = 0 => r = Zero

\* C16: embedding_to_bytes encodes n components as 4n bytes, component i
\* in bytes 4i..4i+3 with the least significant byte first, and
\* bytes_to_embedding gives back the vector bit for bit, so the vector read
\* back with get_all_embeddings is the one insert_embedding stored.
C16_EncodingRoundTrip ==
    call.op = "blob" =>
        /\ Len(call.bytes) = 4 * Len(call.v)
        /\ \A i \in 1..Len(call.v) :
              /\ call.bytes[4 * i - 3] = call.v[i].rest % 256
              /\ call.bytes[4 * i - 2] = (call.v[i].rest \div 256) % 256
              /\ call.bytes[4 * i - 1] = (call.v[i].rest \div 65536) % 256
              /\ call.bytes[4 * i] % 128 = call.v[i].rest \div 16777216
              /\ call.bytes[4 * i] \div 128 = call.v[i].sign
        /\ call.back = call.v

C16_Witness ==
    /\ call.op = "blob"
    /\ Len(call.v) = 2
    /\ call.v[1] = F32Bits(1, 16909060)
    /\ call.v[2] = F32Bits(0, 1065353216)
    /\ call.back = call.v

\* C11: a get_sync_status issued while a sync_vault batch runs returns
\* without waiting for the batch, with a snapshot that has is_running = true
\* and the batch's current processed and total counts.
C11_StatusDuringBatch ==
    LET g == tasks.get_sync_status
    IN  /\ g.pc = "lock" => locks.ingest_engine # "sync_vault"
        /\ (g.pc = "returned" /\ g.during) => g.snapshot.is_running

\* C12: a send_message issued during a sync_vault batch never has to wait
\* for the batch, whatever else happens, a save_settings issued during the
\* batch included: it never waits for a lock whose holder waits for the lock
\* the batch holds.
C12_ChatNotBlockedByBatch ==
    ~ /\ tasks.send_message.pc = "lock"
      /\ locks.rag_engine = "save_settings"
      /\ tasks.save_settings.pc = "ingest_lock"
      /\ locks.ingest_engine = "sync_vault"

Operations == {"sync_vault", "send_message", "sync_outline"}

\* C13 as stated: every operation makes all its requests with one
\* configuration, and a configuration is used only by operations started
\* after the save_settings that stored it returned.
C13_OnlyStartedAfterReturn ==
    \A op \in Operations :
        /\ Cardinality(tasks[op].used) <= 1
        /\ \A c \in tasks[op].used : c <= tasks[op].base

\* C13: a save_settings issued while send_message, sync_vault or
\* sync_outline is in flight does not change the configuration the
\* operation uses for its remaining requests: every operation makes all its
\* requests with one configuration.  A new configuration is used only by
\* operations that make their first request after save_settings stored it;
\* they may have been started before save_settings returned.
C13_ConfigSnapshot ==
    \A op \in Operations :
        /\ Cardinality(tasks[op].used) <= 1
        /\ \A c \in tasks[op].used : c <= tasks[op].stored

\* Each of the three operations overlaps a save_settings: sync_outline has
\* made a request with the old configuration after a new one was stored, a
\* send_message started before save_settings returned has used the new one.
C13_Witness ==
    /\ tasks.sync_outline.used = {1}
    /\ tasks.sync_outline.left > 0
    /\ config.settings = 2
    /\ tasks.send_message.used = {2}
    /\ tasks.send_message.base = 1

\* C21: expand_query returns a list whose first element is the original
\* question unchanged and whose length is between 1 and 4, whatever the
\* provider returns: any number of lines, empty text or an error.
C21_OriginalFirstAtMostFour ==
    call.op = "expand" =>
        /\ Len(call.queries) \in 1..4
        /\ call.queries[1] = call.query

\* The provider returned 5 usable lines and 4 queries came back.
C21_Witness ==
    /\ call.op = "expand"
    /\ call.generated.ok
    /\ Len(call.generated.lines) = 5
    /\ \A i \in 1..5 : call.generated.lines[i] \in {Usable, Numbered}
    /\ Len(call.queries) = 4
    /\ call.query = <<Run(" ", 1), Run("-", 1), Run("a", 500)>>

\* The number of characters of a string.
RECURSIVE CharCount(_)
CharCount(str) == IF str = << >> THEN 0 ELSE str[1].n + CharCount(Tail(str))

\* The lines C23 says are kept, with their list markers stripped.
RECURSIVE C23_Kept(_)
C23_Kept(lines) ==
    IF lines = << >> THEN << >>
    ELSE LET trimmed == trim(Head(lines))
         IN  (IF /\ trimmed # << >>
                 /\ CharCount(trimmed) \in 4..500
                 /\ ~starts_with(trimmed, "-")
                 /\ ~starts_with(trimmed, "*")
              THEN <<trim_start_matches(trimmed, is_list_marker)>>
              ELSE << >>)
             \o C23_Kept(Tail(lines))

\* C23: a line of the expansion response is kept as an alternative query
\* exactly when, trimmed, it is not blank, has 4 to 500 characters and does
\* not start with '-' or '*'; kept lines have their leading list markers
\* stripped and keep their order (three usable lines and a bulleted one give
\* three alternative queries).
C23_LineFilter ==
    (call.op = "expand" /\ call.generated.ok) =>
        Tail(call.queries) = truncate(C23_Kept(call.generated.lines), 3)

\* C24: the fused result holds each chunk id at most once, the entry kept
\* being the one of the earliest query that returned the chunk, is in order
\* of non-increasing similarity and has at most 5 entries.
C24_Fusion ==
    call.op = "fuse" =>
        LET f == call.all_results
            first(id) == IF \E j \in 1..Len(call.per_query[1]) : call.per_query[1][j].id = id
                         THEN call.per_query[1] ELSE call.per_query[2]
        IN  /\ \A i, j \in 1..Len(f) : f[i].id = f[j].id => i = j
            /\ \A i \in 1..Len(f) : \E j \in 1..Len(first(f[i].id)) : first(f[i].id)[j] = f[i]
            /\ \A i, j \in 1..Len(f) :
                  i < j => partial_cmp(f[i].similarity, f[j].similarity) \in {"greater", "equal"}
            /\ Len(f) <= 5

\* C25: a fused result reaches the context exactly when its similarity is
\* at least 0.25: of the similarities 0.9, 0.5, 0.2 and 0.1 the first two
\* are kept, and nothing below 0.25 is in the prompt.
C25_HardCutoff ==
    call.op = "fuse" =>
        LET f == call.all_results
            quarter == div(FromInt(1), FromInt(4))
            kept(i) == \E j \in 1..Len(call.context.sources) : call.context.sources[j] = f[i].id
        IN  /\ \A i \in 1..Len(f) :
                  kept(i) <=> partial_cmp(f[i].similarity, quarter) \in {"greater", "equal"}
            /\ \A j \in 1..Len(call.context.sources) :
                  \E i \in 1..Len(f) : f[i].id = call.context.sources[j]
            /\ call.context.none <=> call.context.sources = << >>

\* The fused results have the similarities 0.9, 0.5, 0.3, 0.25 and 0.2 and
\* the first four are in the context.
C25_Witness ==
    /\ call.op = "fuse"
    /\ Len(call.all_results) = 5
    /\ \A i \in 1..5 : call.all_results[i].similarity = Graded[i]
    /\ Len(call.context.sources) = 4

\* C22: when the provider's call fails during the expansion, expand_query
\* returns the original question alone and no error, and the query goes on
\* to retrieval and generation with that single query.
C22_ExpansionFailureDegrades ==
    /\ [][(sm.pc = "expand" /\ sm'.expansion = "failed")
            => /\ sm'.pc = "retrieve"
               /\ sm'.outcome = "none"
               /\ sm'.queries = <<sm.question>>]_vars
    /\ [](sm.expansion = "failed" => /\ sm.queries = <<sm.question>>
                                     /\ sm.next <= 2
                                     /\ sm.stream.started => sm.next = 2)

\* After a failed expansion the answer was generated and returned.
C22_Witness ==
    /\ sm.expansion = "failed"
    /\ sm.pc = "returned"
    /\ sm.result = "ok"
    /\ sm.stream.marker
    /\ sm.full_response = <<"R">>

\* C26: for every query that invokes the streaming generation, once the
\* stream has ended exactly one done notification has been emitted, after
\* every fragment notification of the query, even when there was no
\* fragment.
C26_DoneSignal ==
    (sm.stream.started /\ sm.pc \in {"respond", "returned"}) =>
        /\ sm.events # << >>
        /\ sm.events[Len(sm.events)] = Done
        /\ \A i \in 1..(Len(sm.events) - 1) : ~sm.events[i].done

\* C27: send_message stores the question as a user turn before the query
\* starts and stores no other turn while it runs; when the query has ended
\* it stores one assistant turn (when the store takes the insert): the
\* answer if the query succeeded, a turn that tells of the error if it
\* failed, and then the command returns the error.  An assistant turn
\* always follows its user turn.
C27_TurnPersistence ==
    /\ [](sm.pc \in {"expand", "retrieve", "stream", "respond"}
             => /\ sm.user = Len(chat_messages)
                /\ chat_messages[sm.user].role = "user"
                /\ chat_messages[sm.user].content = sm.question)
    /\ [](\A i \in 1..Len(chat_messages) :
             chat_messages[i].role = "assistant"
                => i > 1 /\ chat_messages[i - 1].role = "user")
    /\ [][(sm.pc = "respond" /\ sm'.pc = "returned")
            => /\ sm.outcome = "err" => sm'.result = "err"
               /\ IF sm'.assistant = "stored"
                  THEN /\ Len(chat_messages') = sm.user + 1
                       /\ SubSeq(chat_messages', 1, sm.user) = chat_messages
                       /\ chat_messages'[sm.user + 1].role = "assistant"
                       /\ chat_messages'[sm.user + 1].content =
                             IF sm.outcome = "ok" THEN sm.full_response ELSE <<"Error">>
                       /\ sm.outcome = "ok" => sm'.result = "ok"
                  ELSE chat_messages' = chat_messages]_vars

\* The second question's query failed while streaming and the turn that
\* tells of the error follows the question.
C27_Witness ==
    /\ sm.pc = "returned"
    /\ sm.n = 2
    /\ sm.stream.error
    /\ sm.result = "err"
    /\ Len(chat_messages) = 4
    /\ chat_messages[4].content = <<"Error">>
    /\ chat_messages[2].content = <<"R">>

\* C28: the streaming call fails when a line that is not blank is no record
\* and when the byte stream ends before the record with done = true or in
\* the middle of a line; it returns success only after that record.
C28_StreamFraming ==
    (sm.stream.started /\ sm.pc \in {"respond", "returned"} /\ sm.outcome = "ok") =>
        /\ sm.stream.marker
        /\ ~sm.stream.malformed
        /\ ~sm.stream.partial

\* C29: get_chat_history returns the turns in ascending timestamp, turns
\* of one timestamp in ascending id, that is in the order they were stored.
C29_ConversationOrder ==
    \A i, j \in 1..Len(sm.chat_history) :
        i < j => \/ sm.chat_history[i].timestamp < sm.chat_history[j].timestamp
                 \/ /\ sm.chat_history[i].timestamp = sm.chat_history[j].timestamp
                    /\ sm.chat_history[i].id < sm.chat_history[j].id

\* The progress notifications among events, in the order of their emission.
ProgressOf(events) ==
    SelectSeq(events, LAMBDA e : e.event \in {"sync-progress", "outline-sync-progress"})

\* The counts of successive progress notifications never decrease and
\* never exceed the total they carry.
CountsInOrder(events) ==
    LET progress == ProgressOf(events)
    IN  \A k \in 1..Len(progress) :
            /\ progress[k].payload.processed <= progress[k].payload.total
            /\ k > 1 => progress[k - 1].payload.processed
                            <= progress[k].payload.processed

\* One completion notification, after every progress notification.
OneCompletionLast(events, complete) ==
    /\ events # << >>
    /\ events[Len(events)].event = complete
    /\ \A k \in 1..(Len(events) - 1) : events[k].event # complete

\* C30: when a batch of n documents has ended, for the i-th document a
\* progress notification with the count i, the total n and the document's
\* name was emitted; the counts of successive progress notifications never
\* decrease and never exceed the total; one completion notification with
\* the final status was emitted, after every progress notification.
C30_ProgressReporting ==
    /\ (v.pc = "returned" /\ v.result = "ok") =>
          /\ \A i \in 1..Len(v.scan) : \E k \in 1..Len(v.events) :
                /\ v.events[k].event = "sync-progress"
                /\ v.events[k].payload.processed = i
                /\ v.events[k].payload.total = Len(v.scan)
                /\ v.events[k].payload.currentFile = file_name(v.scan[i])
          /\ CountsInOrder(v.events)
          /\ OneCompletionLast(v.events, "sync-complete")
          /\ v.events[Len(v.events)].payload = engine.status
    /\ (o.pc = "idle" /\ o.events # << >>) =>
          /\ \E k \in 1..Len(o.events) :
                /\ o.events[k].event = "outline-sync-progress"
                /\ o.events[k].payload.processed = 1
                /\ o.events[k].payload.total = 1
                /\ o.events[k].payload.currentDocument = title(OutlinePath)
          /\ CountsInOrder(o.events)
          /\ OneCompletionLast(o.events, "outline-sync-complete")

\* C31: when a document of a batch failed, the final status reported at the
\* end of the batch, and the status later polls read, carry an error
\* message; when none failed the error is empty.  For sync_vault and for
\* sync_outline.
C31_FinalStatusSummarisesFailure ==
    /\ []((v.pc = "returned" /\ v.result = "ok") =>
            LET failure == \E i \in 1..Len(v.log) : ~ v.log[i][2]
                final == v.events[Len(v.events)].payload
            IN  /\ (final.error # "None") <=> failure
                /\ (engine.status.error # "None") <=> failure)
    /\ [][(o.pc = "loop" /\ o.docs = << >> /\ o'.pc = "idle") =>
            ((o'.events[Len(o'.events)].payload.error # "None") <=> o.failed)]_vars

\* The fragments notified by events, in the order of their notification.
FragmentsOf(events) ==
    LET fragments == SelectSeq(events, LAMBDA e : ~ e.done)
    IN  [i \in 1..Len(fragments) |-> fragments[i].content]

\* C32: the text generate_stream has accumulated is the concatenation, in
\* the order of their arrival, of the fragments passed to on_chunk; it is
\* the text the query returns and the text stored as the assistant's turn.
C32_AnswerIsConcatenation ==
    /\ sm.stream.started => sm.full_response = FragmentsOf(sm.events)
    /\ (sm.pc = "returned" /\ sm.outcome = "ok" /\ sm.assistant = "stored") =>
          chat_messages[Len(chat_messages)].content = FragmentsOf(sm.events)

\* Two different fragments came in two chunks and the answer was stored.
C32_Witness ==
    /\ sm.pc = "returned"
    /\ sm.result = "ok"
    /\ sm.assistant = "stored"
    /\ sm.chunks = 2
    /\ sm.full_response = <<"R", "S">>
    /\ chat_messages[Len(chat_messages)].content = <<"R", "S">>

\* C33: when no result of the retrieval is relevant, also when the store
\* holds no chunk, the context of the prompt is the sentence that says so,
\* never an empty context, and the generation is invoked all the same.
C33_NoContextPlaceholder ==
    /\ [][(sm.pc = "retrieve" /\ sm'.stream.started) =>
            /\ relevant_results(sm'.all_results) = << >> => sm'.context.none
            /\ ~ sm'.context.none => sm'.context.sources # << >>]_vars
    /\ [](sm.pc = "stream" =>
            (sm.context.none <=>
                \A i \in 1..Len(sm.all_results) :
                    ~ above_threshold(sm.all_results[i].similarity)))

\* The store was empty and the answer is being generated.
C33_Witness ==
    /\ sm.pc = "stream"
    /\ sm.all_results = << >>
    /\ sm.context.none
    /\ sm.full_response # << >>

\* The record of path has one stored chunk for each chunk the parser
\* produces for the content the record's fingerprint was computed of.
CompleteChunks(path) ==
    LET a == get_artifact_by_path(path)
    IN  ChunkRows(embeddings, a.id) = NewChunks(a.content_hash[2])

\* C34: when a batch finds a document's stored fingerprint equal to the one
\* of its current content and skips it, the record has the complete chunk
\* set of that content: the skip never freezes a document with missing
\* chunks.  For process_file and for sync_outline.
C34_IndexCompleteness ==
    [][ /\ (v.pc = "loop" /\ v' # v /\ v'.pc = "loop" /\ v'.result = "skip")
            => CompleteChunks(Head(v.files))
        /\ (o.pc = "loop" /\ o' # o /\ o'.pc = "loop" /\ ~ o'.failed)
            => CompleteChunks(Head(o.docs))
      ]_vars

\* C35: in every state reachable under any interleaving of sync_vault and
\* process_file, sync_outline, remove_file and the delete_artifact command,
\* every stored chunk belongs to a record that exists.
C35_NoOrphanChunks ==
    \A e \in embeddings : \E a \in artifacts : a.id = e.artifact_id

\* The commands that take a tokio mutex.
Lockers == {"sync_vault", "send_message", "save_settings", "get_sync_status"}

\* The mutex command t is waiting for, "none" when it waits for none.
Awaited(t) ==
    IF t \in {"sync_vault", "get_sync_status"} /\ tasks[t].pc = "lock" THEN "ingest_engine"
    ELSE IF t = "send_message" /\ tasks[t].pc = "lock" THEN "rag_engine"
    ELSE IF t = "save_settings" /\ tasks[t].pc = "rag_lock" THEN "rag_engine"
    ELSE IF t = "save_settings" /\ tasks[t].pc = "ingest_lock" THEN "ingest_engine"
    ELSE "none"

\* The command that holds the mutex t is waiting for, "none" when t does
\* not wait or the mutex is free.
BlockedBy(t) ==
    IF Awaited(t) = "none" \/ locks[Awaited(t)] = "free" THEN "none"
    ELSE locks[Awaited(t)]

\* C36: no command waits for a mutex forever: a mutex is held only by a
\* command that is running, a command never waits for a mutex it holds,
\* the chain of commands a waiting command is blocked by has no cycle and
\* ends at a command that waits for no mutex, and no command awaits the
\* rag_engine mutex while it holds the ingest_engine mutex.
C36_NoDeadlock ==
    /\ locks.ingest_engine \in {"free", "sync_vault"}
    /\ locks.rag_engine \in {"free", "send_message", "save_settings"}
    /\ locks.ingest_engine = "sync_vault" <=> tasks.sync_vault.pc = "run"
    /\ locks.rag_engine = "send_message" <=> tasks.send_message.pc = "run"
    /\ locks.rag_engine = "save_settings" <=> tasks.save_settings.pc = "ingest_lock"
    /\ \A t \in Lockers :
          /\ BlockedBy(t) # t
          /\ BlockedBy(BlockedBy(t)) # t
          /\ BlockedBy(BlockedBy(BlockedBy(t))) = "none"
          /\ (Awaited(t) = "rag_engine" /\ locks.ingest_engine # "free")
                => locks.ingest_engine # t

\* save_settings holds the rag_engine mutex and waits for the ingest_engine
\* mutex, which a running batch holds, while send_message waits for the
\* rag_engine mutex and get_sync_status for the other.
C36_Witness ==
    /\ tasks.save_settings.pc = "ingest_lock"
    /\ locks.rag_engine = "save_settings"
    /\ locks.ingest_engine = "sync_vault"
    /\ tasks.send_message.pc = "lock"
    /\ tasks.get_sync_status.pc = "lock"

\* The invocations of sync_vault whose batch is in progress.
Running == {i \in Invocations : calls[i].pc = "run"}

\* C37: at most one sync_vault batch runs at a time: while one runs, a
\* second invocation waits for the lock; the status is the one of the
\* running batch alone, and is_running tells that exactly one batch is in
\* progress.
C37_OneBatchAtATime ==
    /\ Cardinality(Running) <= 1
    /\ engine.status.is_running <=> Cardinality(Running) = 1
    /\ \A i \in Running :
          /\ locks.ingest_engine = i
          /\ engine.status.total_files = calls[i].total
          /\ engine.status.processed_files = calls[i].total - calls[i].left
    /\ Running = {} => locks.ingest_engine = "free"

\* A batch has processed one of its two files while the other invocation
\* waits for the lock, after an earlier batch has completed.
C37_Witness ==
    /\ calls["sync_vault_a"].pc = "run"
    /\ calls["sync_vault_a"].total = 2
    /\ calls["sync_vault_a"].left = 1
    /\ calls["sync_vault_b"].pc = "lock"
    /\ engine.status.last_sync_at = "Some"

\* C38: when embedding a query of the expanded list, the original or an
\* alternative, or a search fails, query returns the error: the streaming
\* generation is not invoked and no stream notification is emitted, not
\* even the done one.
C38_RetrievalFailureStops ==
    /\ [][(sm.pc = "retrieve" /\ sm'.retrieval = "failed") =>
            /\ sm'.pc = "respond"
            /\ sm'.outcome = "err"
            /\ sm'.next = sm.next]_vars
    /\ [](sm.retrieval = "failed" =>
            /\ sm.pc \in {"respond", "returned"}
            /\ sm.outcome = "err"
            /\ sm.next <= Len(sm.queries)
            /\ ~ sm.stream.started
            /\ sm.events = << >>
            /\ sm.full_response = << >>
            /\ sm.pc = "returned" => sm.result = "err")

\* The retrieval for the third query of an expanded list failed and the
\* command has returned the error.
C38_Witness ==
    /\ sm.retrieval = "failed"
    /\ sm.pc = "returned"
    /\ Len(sm.queries) = 4
    /\ sm.next = 3
    /\ sm.result = "err"

\* C39: sync_vault called with a path that is no directory returns the
\* status with the error 'Invalid vault path': is_running is not set,
\* nothing is notified, nothing is written to the store, no embedding is
\* requested, and processed_files, total_files and last_sync_at are as they
\* were.
C39_InvalidVaultPath ==
    /\ [][(v.pc = "idle" /\ v'.pc = "returned" /\ v'.result = "invalid") =>
            /\ engine'.status.error = "Invalid vault path"
            /\ engine'.status.is_running = engine.status.is_running
            /\ ~ engine'.status.is_running
            /\ engine'.status.processed_files = engine.status.processed_files
            /\ engine'.status.total_files = engine.status.total_files
            /\ engine'.status.last_sync_at = engine.status.last_sync_at
            /\ artifacts' = artifacts
            /\ embeddings' = embeddings
            /\ v'.events = << >>
            /\ v'.embedded = {}
            /\ v'.log = << >>]_vars
    /\ []((v.pc = "returned" /\ v.result = "invalid") =>
            /\ engine.status.error = "Invalid vault path"
            /\ ~ engine.status.is_running
            /\ v.events = << >>)

\* sync_vault was called with an invalid path after a batch of two files
\* had completed.
C39_Witness ==
    /\ v.pc = "returned"
    /\ v.result = "invalid"
    /\ engine.status.error = "Invalid vault path"
    /\ engine.status.last_sync_at = "Some"
    /\ engine.status.total_files = 2
    /\ engine.status.processed_files = 2

\* What get_sync_status returns when it reads the status now.
StatusNow == IF engine.some THEN engine.status ELSE SyncStatusDefault

\* C40: once a sync_vault batch has completed, the last_sync_at,
\* processed_files and total_files that get_sync_status returns stay those
\* of that batch until the next batch starts, whatever other commands run
\* in between.
C40_StatusPersistence ==
    [][ (/\ StatusNow.last_sync_at = "Some"
         /\ tasks.sync_vault.pc # "run"
         /\ tasks'.sync_vault.pc # "run") =>
          /\ StatusNow'.last_sync_at = StatusNow.last_sync_at
          /\ StatusNow'.processed_files = StatusNow.processed_files
          /\ StatusNow'.total_files = StatusNow.total_files
      ]_vars

====
